---- MODULE Spec2Model ----
(***************************************************************************)
(* A model of the accc-mergers data pipeline: the event reconciler of      *)
(* scripts/extract_mergers.py (parse_merger_file), the determination       *)
(* normalizers (scripts/normalization.py and the extractor's own copy) and *)
(* the retention cutoff of scripts/cutoff.py.                              *)
(*                                                                         *)
(* Python values are modelled as follows.  A str is a TLA+ string; a dict  *)
(* is a function whose DOMAIN is the set of keys present ("k" in d is      *)
(* "k" \in DOMAIN d); a list is a sequence; None is the string NoneVal,    *)
(* which no modelled text equals.                                          *)
(***************************************************************************)
EXTENDS Integers, Sequences, FiniteSets, TLC

VARIABLES
    merger,      \* the record of the matter in data/processed/mergers.json, or NoRecord
    prior,       \* the record the last run of the extractor read (existing_merger_data)
    page,        \* the matter page the last run of the extractor parsed
    scraped,     \* scraped_events of that run
    runs,        \* number of extractor runs so far
    raw,         \* normalizer: the raw determination text handed to normalize_determination
    normalized,  \* normalizer: its result, once computed
    npc,         \* normalizer: "start" | "done"
    matter,      \* cutoff: the merger record handed to get_cutoff_date
    weeks,       \* cutoff: the cutoff_weeks argument
    cutoff,      \* cutoff: the result of get_cutoff_date, once computed
    cpc,         \* cutoff: "page" | "start" | "done"
    reference,   \* cutoff: the reference_date argument of should_skip_merger
    skip,        \* cutoff: the result of should_skip_merger, once computed
    HOLIDAYS_JSON,     \* days: the dates listed in act-public-holidays.json
    PUBLIC_HOLIDAYS,   \* days: the lazily loaded set of generate_static_data.py
    start_date_str,    \* days: the first argument of the day counters
    end_date_str,      \* days: their second argument
    days,              \* days: the function called and its result, once computed
    dpc,               \* days: "start" | "done"
    commentary,        \* resolver: the commentary argument of enrich_merger
    enriched,          \* resolver: the result of enrich_merger(matter, commentary)
    rpc,               \* resolver: "start" | "done" | "again"
    again,             \* resolver: result of enrich_merger on its own result
    mergers_json,      \* batch: the records of data/processed/mergers.json
    files,             \* batch: the .html files of the matters directory, name to page
    tasks,             \* batch: the tasks of main() in the order of the listing, with
                       \*        the state of the worker of each and its result
    bpc,               \* batch: "start" | "parsing"
    callers            \* calendar: the threads calling is_business_day, each with its
                       \*           position and its local values

daysVars == <<HOLIDAYS_JSON, PUBLIC_HOLIDAYS, start_date_str, end_date_str, days, dpc>>

resolverVars == <<commentary, enriched, rpc, again>>

batchVars == <<mergers_json, files, tasks, bpc, callers>>

vars == <<merger, prior, page, scraped, runs, raw, normalized, npc, matter, weeks, cutoff, cpc,
          reference, skip, daysVars, resolverVars, batchVars>>

(***************************************************************************)
(* Bounds of the model.                                                    *)
(***************************************************************************)
MaxScraped == 2   \* rows in the timeline table of one page
MaxRuns == 2      \* runs of the extractor over the matter

(***************************************************************************)
(* Python built-ins.                                                       *)
(***************************************************************************)
NoneVal == "<None>"

Get(d, k) == IF k \in DOMAIN d THEN d[k] ELSE NoneVal

GetOr(d, k, default) == IF k \in DOMAIN d THEN d[k] ELSE default

Put(d, k, v) == [x \in (DOMAIN d) \cup {k} |-> IF x = k THEN v ELSE d[x]]

\* bool(v) of a str or None
Truthy(v) == v # NoneVal /\ v # ""

\* str(v) as an f-string formats it
Str(v) == IF v = NoneVal THEN "None" ELSE v

\* sub in s
Contains(sub, s) ==
    \E i \in 1..(Len(s) - Len(sub) + 1) : SubSeq(s, i, i + Len(sub) - 1) = sub

\* s.startswith(p)
StartsWith(s, p) == Len(p) <= Len(s) /\ SubSeq(s, 1, Len(p)) = p

\* s.endswith(p)
EndsWith(s, p) == Len(p) <= Len(s) /\ SubSeq(s, Len(s) - Len(p) + 1, Len(s)) = p

\* the part of s from index i on, with every non-overlapping occurrence of old
\* replaced by new, left to right
RECURSIVE ReplaceFrom(_, _, _, _)
ReplaceFrom(s, old, new, i) ==
    IF i + Len(old) - 1 > Len(s) THEN SubSeq(s, i, Len(s))
    ELSE IF SubSeq(s, i, i + Len(old) - 1) = old
         THEN new \o ReplaceFrom(s, old, new, i + Len(old))
         ELSE SubSeq(s, i, i) \o ReplaceFrom(s, old, new, i + 1)

\* s.replace(old, new)
Replace(s, old, new) == ReplaceFrom(s, old, new, 1)

Whitespace == {" ", "\t", "\n", "\r"}

RECURSIVE LStrip(_)
LStrip(s) ==
    IF Len(s) > 0 /\ SubSeq(s, 1, 1) \in Whitespace
    THEN LStrip(SubSeq(s, 2, Len(s))) ELSE s

RECURSIVE RStrip(_)
RStrip(s) ==
    IF Len(s) > 0 /\ SubSeq(s, Len(s), Len(s)) \in Whitespace
    THEN RStrip(SubSeq(s, 1, Len(s) - 1)) ELSE s

\* s.strip()
Strip(s) == RStrip(LStrip(s))

Upper == "ABCDEFGHIJKLMNOPQRSTUVWXYZ"

Lowercase == "abcdefghijklmnopqrstuvwxyz"

LowerChar(c) ==
    IF \E i \in 1..26 : SubSeq(Upper, i, i) = c
    THEN LET i == CHOOSE j \in 1..26 : SubSeq(Upper, j, j) = c
         IN SubSeq(Lowercase, i, i)
    ELSE c

\* s.lower()
RECURSIVE Lower(_)
Lower(s) ==
    IF Len(s) = 0 THEN s
    ELSE LowerChar(SubSeq(s, 1, 1)) \o Lower(SubSeq(s, 2, Len(s)))

\* index of the last occurrence of the one-character string c in s at or
\* before index i, 0 if none
RECURSIVE RFindFrom(_, _, _)
RFindFrom(s, c, i) ==
    IF i = 0 THEN 0
    ELSE IF SubSeq(s, i, i) = c THEN i ELSE RFindFrom(s, c, i - 1)

\* s.rfind(c) + 1
RFind(s, c) == RFindFrom(s, c, Len(s))

(***************************************************************************)
(* scripts/normalization.py and the extractor's own normalizer.            *)
(***************************************************************************)
\* normalization.normalize_determination
NormalizeDetermination(determination) ==
    IF ~Truthy(determination) THEN NoneVal
    ELSE LET d == Strip(Replace(determination, "ACCC Determination", ""))
         IN IF Contains("Not approved", d) \/ Contains("not approved", d)
            THEN "Not approved"
            ELSE IF Contains("Approved", d) \/ Contains("approved", d)
            THEN "Approved"
            ELSE IF Contains("Declined", d) \/ Contains("declined", d)
            THEN "Declined"
            ELSE IF Contains("Not opposed", d) \/ Contains("not opposed", d)
            THEN "Not opposed"
            ELSE d

\* extract_mergers.normalize_determination
ExtractNormalizeDetermination(determination) ==
    IF ~Truthy(determination) THEN determination
    ELSE LET d == Strip(Replace(determination, "ACCC Determination", ""))
         IN IF Contains("Approved", d) \/ Contains("approved", d)
            THEN "Approved"
            ELSE IF Contains("Declined", d) \/ Contains("declined", d)
            THEN "Declined"
            ELSE IF Contains("Not opposed", d) \/ Contains("not opposed", d)
            THEN "Not opposed"
            ELSE d

\* sync_data.normalize_determination
SyncNormalizeDetermination(determination) ==
    IF ~Truthy(determination) THEN determination
    ELSE LET d == Strip(Replace(determination, "ACCC Determination", ""))
         IN IF Contains("Approved", d) \/ Contains("approved", d)
            THEN "Approved"
            ELSE IF Contains("Declined", d) \/ Contains("declined", d)
            THEN "Declined"
            ELSE IF Contains("Not opposed", d) \/ Contains("not opposed", d)
            THEN "Not opposed"
            ELSE d

(***************************************************************************)
(* scripts/extract_mergers.py: one timeline row to one event.              *)
(*                                                                         *)
(* A page is the parsed HTML of one matter: a dict holding the fields the  *)
(* page carries ("merger_id", "notified", "stage", "det_date", "det_text") *)
(* and "rows", the rows of its timeline tables.  A row has "date" and      *)
(* "title", and "href" when its link cell holds a link.                    *)
(***************************************************************************)
\* None where a dict is expected (existing_merger_data=None)
NoRecord == <<>>

BASE_URL == "https://www.accc.gov.au"

\* s.find(sub, from) + 1: index of the first occurrence at or after from, 0 if none
RECURSIVE Find(_, _, _)
Find(s, sub, from) ==
    IF from + Len(sub) - 1 > Len(s) THEN 0
    ELSE IF SubSeq(s, from, from + Len(sub) - 1) = sub THEN from
         ELSE Find(s, sub, from + 1)

\* urljoin(BASE_URL, href) for an absolute url or an absolute path
UrlJoin(base, href) == IF Find(href, "://", 1) > 0 THEN href ELSE base \o href

\* urlparse(url).path of a url without query or fragment
UrlPath(url) ==
    LET scheme == Find(url, "://", 1)
        slash == Find(url, "/", IF scheme = 0 THEN 1 ELSE scheme + 3)
    IN IF slash = 0 THEN "" ELSE SubSeq(url, slash, Len(url))

\* os.path.basename(path)
Basename(path) == SubSeq(path, RFind(path, "/") + 1, Len(path))

\* urllib.parse.unquote, for the escape the modelled links use
Unquote(s) == Replace(s, "%20", " ")

\* get_serve_filename
GetServeFilename(original_filename) ==
    IF Len(original_filename) >= 5
       /\ Lower(SubSeq(original_filename, Len(original_filename) - 4,
                       Len(original_filename))) = ".docx"
    THEN LET dot == RFind(original_filename, ".")
         IN SubSeq(original_filename, 1, dot - 1) \o ".pdf"
    ELSE original_filename

\* the row loop without the display_title default
ScrapeEventNoDisplayTitle(merger_id, row) ==
    LET event == [date |-> row.date, title |-> row.title]
    IN IF "href" \in DOMAIN row
       THEN LET url == UrlJoin(BASE_URL, row.href)
                original_filename == Unquote(Basename(UrlPath(url)))
                serve_filename == GetServeFilename(original_filename)
            IN [url |-> url,
                url_gh |-> "/matters/" \o Str(merger_id) \o "/" \o serve_filename,
                status |-> "live"] @@ event
       ELSE event

\* the body of the row loop of parse_merger_file; download_attachment is the
\* download collaborator and returns no determination data here
ScrapeEvent(merger_id, row) ==
    LET event == [date |-> row.date, title |-> row.title, display_title |-> row.title]
    IN IF "href" \in DOMAIN row
       THEN LET url == UrlJoin(BASE_URL, row.href)
                original_filename == Unquote(Basename(UrlPath(url)))
                serve_filename == GetServeFilename(original_filename)
            IN [url |-> url,
                url_gh |-> "/matters/" \o Str(merger_id) \o "/" \o serve_filename,
                status |-> "live"] @@ event
       ELSE event

ScrapeEvents(merger_id, rows) == [i \in 1..Len(rows) |-> ScrapeEvent(merger_id, rows[i])]

(***************************************************************************)
(* scripts/extract_mergers.py: merging the scraped events with the         *)
(* existing ones.                                                          *)
(***************************************************************************)
\* scraped_by_url as the list of its values in dict order: a later event with
\* the same url takes the place of the earlier one
RECURSIVE ScrapedByUrl(_)
ScrapedByUrl(events) ==
    IF Len(events) = 0 THEN <<>>
    ELSE LET init == ScrapedByUrl(SubSeq(events, 1, Len(events) - 1))
             event == events[Len(events)]
         IN IF "url" \notin DOMAIN event THEN init
            ELSE IF \E j \in 1..Len(init) : init[j].url = event.url
            THEN [j \in 1..Len(init) |-> IF init[j].url = event.url THEN event ELSE init[j]]
            ELSE Append(init, event)

\* scraped_without_url
ScrapedWithoutUrl(events) == SelectSeq(events, LAMBDA e : "url" \notin DOMAIN e)

\* list.remove(x): drops the first element equal to x
RemoveFirst(list, x) ==
    LET i == CHOOSE j \in 1..Len(list) : list[j] = x /\ \A k \in 1..(j - 1) : list[k] # x
    IN SubSeq(list, 1, i - 1) \o SubSeq(list, i + 1, Len(list))

\* the scraped event as scraped
UpdatedEventAsScraped(scraped_event, existing_event) == scraped_event

\* the scraped event with the display_title and the status of the existing one
UpdatedEventStatusKept(scraped_event, existing_event) ==
    LET e == IF "display_title" \in DOMAIN existing_event
             THEN Put(scraped_event, "display_title", existing_event.display_title)
             ELSE scraped_event
    IN IF "status" \in DOMAIN existing_event THEN Put(e, "status", existing_event.status)
       ELSE e

\* lines 388-390: the scraped event with the display_title of the existing one
UpdatedEvent(scraped_event, existing_event) ==
    IF "display_title" \in DOMAIN existing_event
    THEN Put(scraped_event, "display_title", existing_event.display_title)
    ELSE scraped_event

\* the existing event kept with the status it had
RemovedEventStatusKept(existing_event) == existing_event

\* line 395: the existing event marked as removed
RemovedEvent(existing_event) == Put(existing_event, "status", "removed")

\* one iteration of "for existing_event in existing_events"; st holds
\* merged_events, existing_urls_processed and scraped_without_url
MergeExistingEvent(st, by_url, existing_event) ==
    IF "url" \in DOMAIN existing_event
    THEN IF \E j \in 1..Len(by_url) : by_url[j].url = existing_event.url
         THEN LET scraped_event == by_url[CHOOSE j \in 1..Len(by_url) : by_url[j].url = existing_event.url]
                  updated_event == UpdatedEvent(scraped_event, existing_event)
              IN [st EXCEPT !.merged = Append(@, updated_event),
                            !.processed = @ \cup {existing_event.url}]
         ELSE [st EXCEPT !.merged = Append(@, RemovedEvent(existing_event))]
    ELSE IF \E j \in 1..Len(st.pool) : st.pool[j].title = existing_event.title
         THEN LET i == CHOOSE j \in 1..Len(st.pool) : st.pool[j].title = existing_event.title
                           /\ \A k \in 1..(j - 1) : st.pool[k].title # existing_event.title
                  found == st.pool[i]
                  matching_scraped ==
                      IF "display_title" \in DOMAIN existing_event
                      THEN Put(found, "display_title", existing_event.display_title)
                      ELSE IF "display_title" \notin DOMAIN found
                      THEN Put(found, "display_title", found.title)
                      ELSE found
                  \* the assignment above changes the pooled dict itself
                  pool == [st.pool EXCEPT ![i] = matching_scraped]
              IN [st EXCEPT !.merged = Append(@, matching_scraped),
                            !.pool = RemoveFirst(pool, matching_scraped)]
         ELSE [st EXCEPT !.merged = Append(@,
                   IF "display_title" \notin DOMAIN existing_event
                   THEN Put(existing_event, "display_title", existing_event.title)
                   ELSE existing_event)]

RECURSIVE MergeExisting(_, _, _)
MergeExisting(st, by_url, existing_events) ==
    IF Len(existing_events) = 0 THEN st
    ELSE MergeExisting(MergeExistingEvent(st, by_url, Head(existing_events)),
                       by_url, Tail(existing_events))

\* every scraped event with a url
NewScrapedWithUrlAll(by_url, processed) == by_url

\* lines 419-421: the scraped events whose url no existing event has
NewScrapedWithUrl(by_url, processed) == SelectSeq(by_url, LAMBDA e : e.url \notin processed)

\* lines 364-431: merged_events
MergeEvents(scraped_events, existing_merger_data) ==
    IF existing_merger_data # NoRecord /\ "events" \in DOMAIN existing_merger_data
    THEN LET by_url == ScrapedByUrl(scraped_events)
             st == MergeExisting([merged |-> <<>>, processed |-> {},
                                  pool |-> ScrapedWithoutUrl(scraped_events)],
                                 by_url, existing_merger_data.events)
             new_with_url == NewScrapedWithUrl(by_url, st.processed)
             remaining == [i \in 1..Len(st.pool) |->
                              IF "display_title" \notin DOMAIN st.pool[i]
                              THEN Put(st.pool[i], "display_title", st.pool[i].title)
                              ELSE st.pool[i]]
         IN st.merged \o new_with_url \o remaining
    ELSE scraped_events

NotificationTitle == "Merger notified to ACCC"

\* a membership test that never finds the title
HasTitleNever(events, title) == FALSE

\* any(e['title'] == title for e in events), lines 442 and 464
HasTitle(events, title) == \E i \in 1..Len(events) : events[i].title = title

\* lines 433-443: the notification event
AddNotificationEvent(merger_data) ==
    IF Truthy(Get(merger_data, "effective_notification_datetime"))
    THEN LET notification_event == [date |-> merger_data.effective_notification_datetime,
                                    title |-> NotificationTitle,
                                    display_title |-> NotificationTitle]
         IN IF ~HasTitle(merger_data.events, notification_event.title)
            THEN [merger_data EXCEPT !.events = Append(@, notification_event)]
            ELSE merger_data
    ELSE merger_data

\* the title of the determination event, line 447-449
DeterminationTitle(merger_data) ==
    Str(GetOr(merger_data, "stage", "Phase 1")) \o " determination: "
        \o Str(GetOr(merger_data, "accc_determination", "Decision made"))

\* the old title format whatever its date
IsOldFormatAnyDate(e, determination_publication_date) ==
    StartsWith(e.title, "Determination published:")

\* lines 459-460: an event in the old title format with the date of the determination
IsOldFormatDetermination(e, determination_publication_date) ==
    /\ StartsWith(e.title, "Determination published:")
    /\ e.date = determination_publication_date

\* lines 445-465: the determination event
AddDeterminationEvent(merger_data) ==
    IF Truthy(Get(merger_data, "determination_publication_date"))
    THEN LET determination_title == DeterminationTitle(merger_data)
             determination_event == [date |-> merger_data.determination_publication_date,
                                     title |-> determination_title,
                                     display_title |-> determination_title]
             kept == SelectSeq(merger_data.events, LAMBDA e :
                         ~IsOldFormatDetermination(e, merger_data.determination_publication_date))
         IN IF ~HasTitle(kept, determination_title)
            THEN [merger_data EXCEPT !.events = Append(kept, determination_event)]
            ELSE [merger_data EXCEPT !.events = kept]
    ELSE merger_data

(***************************************************************************)
(* scripts/extract_mergers.py: the two dates kept from the record of the   *)
(* last run when the page no longer gives them.  A page carries "end_date" *)
(* when its end-of-determination tag holds a time, and "consultation_text" *)
(* when it has a consultation tag.                                         *)
(***************************************************************************)
Digits == "0123456789"

\* the value of a one-character string, -1 if it is no digit
DigitValue(c) == Find(Digits, c, 1) - 1

IsNumber(s) ==
    Len(s) > 0 /\ \A i \in 1..Len(s) : DigitValue(SubSeq(s, i, i)) >= 0

RECURSIVE ToInt(_)
ToInt(s) ==
    IF Len(s) = 0 THEN 0
    ELSE 10 * ToInt(SubSeq(s, 1, Len(s) - 1)) + DigitValue(SubSeq(s, Len(s), Len(s)))

IsLeapYear(y) == y % 4 = 0 /\ (y % 100 # 0 \/ y % 400 = 0)

DaysInMonth(y, m) ==
    IF m = 2 THEN (IF IsLeapYear(y) THEN 29 ELSE 28)
    ELSE IF m \in {4, 6, 9, 11} THEN 30 ELSE 31

\* the decimal text of n, zero-padded to width digits
RECURSIVE ZeroPadded(_, _)
ZeroPadded(n, width) ==
    IF width = 0 THEN ""
    ELSE ZeroPadded(n \div 10, width - 1) \o SubSeq(Digits, (n % 10) + 1, (n % 10) + 1)

\* the month names of date_pattern, in the order of the alternation, with
\* the number of the month
MonthNames ==
    << <<"January", 1>>, <<"February", 2>>, <<"March", 3>>, <<"April", 4>>, <<"May", 5>>,
       <<"June", 6>>, <<"July", 7>>, <<"August", 8>>, <<"September", 9>>, <<"October", 10>>,
       <<"November", 11>>, <<"December", 12>>, <<"Jan", 1>>, <<"Feb", 2>>, <<"Mar", 3>>,
       <<"Apr", 4>>, <<"May", 5>>, <<"Jun", 6>>, <<"Jul", 7>>, <<"Aug", 8>>, <<"Sep", 9>>,
       <<"Oct", 10>>, <<"Nov", 11>>, <<"Dec", 12>> >>

\* the length of the run of whitespace of s that starts at index i
RECURSIVE SpaceRun(_, _)
SpaceRun(s, i) ==
    IF i <= Len(s) /\ SubSeq(s, i, i) \in Whitespace THEN 1 + SpaceRun(s, i + 1) ELSE 0

\* the index after the n-th month name at index j of text and the whitespace
\* that follows it
AfterMonth(text, j, n) ==
    j + Len(MonthNames[n][1]) + SpaceRun(text, j + Len(MonthNames[n][1]))

\* date_pattern matched at index i of text with a day of dl digits: the set
\* of <<day, month, year>> the groups can take (day and year as matched, the
\* month as its number)
DatePatternAt(text, i, dl) ==
    LET day == SubSeq(text, i, i + dl - 1)
        j == i + dl + SpaceRun(text, i + dl)
    IN IF ~(i + dl - 1 <= Len(text) /\ IsNumber(day) /\ SpaceRun(text, i + dl) >= 1) THEN {}
       ELSE { <<day, MonthNames[n][2],
                SubSeq(text, AfterMonth(text, j, n), AfterMonth(text, j, n) + 3)>> :
                  n \in { n \in 1..Len(MonthNames) :
                             LET name == MonthNames[n][1]
                             IN /\ j + Len(name) - 1 <= Len(text)
                                /\ Lower(SubSeq(text, j, j + Len(name) - 1)) = Lower(name)
                                /\ SpaceRun(text, j + Len(name)) >= 1
                                /\ AfterMonth(text, j, n) + 3 <= Len(text)
                                /\ IsNumber(SubSeq(text, AfterMonth(text, j, n),
                                                   AfterMonth(text, j, n) + 3)) } }

\* parse_date_from_text, for years from 1000: the leftmost match of
\* date_pattern, the day taking two digits when it can, read by strptime and
\* written back by strftime; None without a match or for a day the month
\* does not have
ParseDateFromText(text) ==
    IF ~Truthy(text) THEN NoneVal
    ELSE LET starts == { i \in 1..Len(text) :
                             DatePatternAt(text, i, 2) \cup DatePatternAt(text, i, 1) # {} }
         IN IF starts = {} THEN NoneVal
            ELSE LET i == CHOOSE x \in starts : \A y \in starts : x <= y
                     found == IF DatePatternAt(text, i, 2) # {}
                              THEN DatePatternAt(text, i, 2) ELSE DatePatternAt(text, i, 1)
                     match == CHOOSE m \in found : TRUE
                     day == ToInt(match[1])
                     year == ToInt(match[3])
                 IN IF day >= 1 /\ year >= 1 /\ day <= DaysInMonth(year, match[2])
                    THEN ZeroPadded(year, 4) \o "-" \o ZeroPadded(match[2], 2) \o "-"
                             \o ZeroPadded(day, 2) \o "T12:00:00Z"
                    ELSE NoneVal

\* lines 230-236 and 247-261: end_of_determination_period and
\* consultation_response_due_date, each from the page or else from the
\* record of the last run
PreservedFields(p, existing_merger_data) ==
    LET consultation_due_date ==
            IF "consultation_text" \in DOMAIN p
            THEN ParseDateFromText(p.consultation_text) ELSE NoneVal
        f1 == IF "end_date" \in DOMAIN p
              THEN [end_of_determination_period |-> p.end_date]
              ELSE IF "end_of_determination_period" \in DOMAIN existing_merger_data
              THEN [end_of_determination_period |->
                        existing_merger_data.end_of_determination_period]
              ELSE <<>>
    IN IF Truthy(consultation_due_date)
       THEN Put(f1, "consultation_response_due_date", consultation_due_date)
       ELSE IF "consultation_response_due_date" \in DOMAIN existing_merger_data
       THEN Put(f1, "consultation_response_due_date",
                existing_merger_data.consultation_response_due_date)
       ELSE f1

\* lines 205-245: the fields of the page
PageFields(p) ==
    LET f1 == [merger_id |-> Get(p, "merger_id"),
               stage |-> IF "stage" \in DOMAIN p
                         THEN Replace(p.stage, "Stage ", "") ELSE NoneVal]
        f2 == IF "notified" \in DOMAIN p
              THEN Put(f1, "effective_notification_datetime", p.notified) ELSE f1
        f3 == IF "det_date" \in DOMAIN p
              THEN Put(f2, "determination_publication_date", p.det_date) ELSE f2
    IN IF "det_text" \in DOMAIN p
       THEN Put(f3, "accc_determination", ExtractNormalizeDetermination(p.det_text))
       ELSE f3

\* lines 320-362: scraped_events
ParseEvents(p) == ScrapeEvents(Get(p, "merger_id"), p.rows)

\* lines 205-261 and 364-467: merger_data, given scraped_events
ReconcileRecord(p, scraped_events, existing_merger_data) ==
    LET merged == Put(PreservedFields(p, existing_merger_data) @@ PageFields(p), "events",
                      MergeEvents(scraped_events, existing_merger_data))
    IN AddDeterminationEvent(AddNotificationEvent(merged))

\* parse_merger_file(filepath, existing_merger_data), for the fields and the
\* events of the matter
ParseMergerFile(p, existing_merger_data) ==
    ReconcileRecord(p, ParseEvents(p), existing_merger_data)

(***************************************************************************)
(* The pages the regulator may publish for the matter, and the records an  *)
(* earlier version of the extractor may have left in mergers.json.         *)
(***************************************************************************)
D1 == "2025-03-03T12:00:00Z"

D2 == "2025-06-10T12:00:00Z"

MatterId == "MN-01016"

OldFormatTitle == "Determination published: Approved"

TimelineRows ==
    { [date |-> D1, title |-> "Statement of issues",
       href |-> "/system/files/Statement%20of%20issues.docx"],
      [date |-> D2, title |-> "Revised statement of issues",
       href |-> "/system/files/Statement%20of%20issues.docx"],
      [date |-> D1, title |-> OldFormatTitle,
       href |-> "/system/files/determination.pdf"],
      [date |-> D2, title |-> "Determination",
       href |-> "/system/files/determination.pdf"],
      [date |-> D1, title |-> "Public consultation commenced"],
      [date |-> D2, title |-> "Public consultation closed"] }

\* one scrape lists a link once and a link-less title once
Deduplicated(events) ==
    \A i, j \in 1..Len(events) :
        i < j =>
            /\ ("url" \in DOMAIN events[i] /\ "url" \in DOMAIN events[j])
                   => events[i].url # events[j].url
            /\ ("url" \notin DOMAIN events[i] /\ "url" \notin DOMAIN events[j])
                   => events[i].title # events[j].title

RowLists ==
    { rows \in UNION { [1..n -> TimelineRows] : n \in 0..MaxScraped } :
          Deduplicated(ScrapeEvents(MatterId, rows)) }

PageHeaders ==
    { [merger_id |-> MatterId, stage |-> "Stage Phase 1", notified |-> D1],
      [merger_id |-> MatterId, stage |-> "Stage Phase 1", notified |-> D1,
       det_date |-> D1, det_text |-> "ACCC DeterminationApproved"],
      [merger_id |-> MatterId, stage |-> "Stage Phase 1", notified |-> D2,
       det_date |-> D1, det_text |-> "Not approved"],
      [merger_id |-> MatterId, det_date |-> D2] }

Pages == { Put(h, "rows", rows) : h \in PageHeaders, rows \in RowLists }

\* a record written before display_title existed, with two titles overridden
\* by hand since, a link that has left the page and an old-format
\* determination event
LegacyRecord ==
    [merger_id |-> MatterId, stage |-> "Phase 1",
     effective_notification_datetime |-> D1,
     events |-> <<
        [date |-> D1, title |-> "Statement of issues",
         display_title |-> "Issues paper",
         url |-> BASE_URL \o "/system/files/Statement%20of%20issues.docx",
         url_gh |-> "/matters/MN-01016/Statement of issues.pdf", status |-> "live"],
        [date |-> D1, title |-> OldFormatTitle],
        [date |-> D1, title |-> "Submission",
         url |-> BASE_URL \o "/system/files/submission.pdf",
         url_gh |-> "/matters/MN-01016/submission.pdf", status |-> "live"],
        [date |-> D2, title |-> "Public consultation commenced",
         display_title |-> "Consultation"],
        [date |-> D1, title |-> NotificationTitle,
         display_title |-> NotificationTitle] >>]

NoPage == <<>>

(***************************************************************************)
(* The extractor run over the matter: main() hands parse_merger_file the   *)
(* page and the record of the last run, and writes the result back.        *)
(***************************************************************************)
\* enrich_merger not called
InitResolverIdle == commentary = <<>> /\ enriched = <<>> /\ rpc = "idle" /\ again = <<>>

\* main() not running, no thread calling the calendar
InitBatchIdle ==
    /\ mergers_json = <<>> /\ files = <<>> /\ tasks = <<>> /\ bpc = "idle"
    /\ callers = <<>>

\* no day counter called, the holiday set not loaded
InitDaysIdle ==
    /\ HOLIDAYS_JSON = {} /\ PUBLIC_HOLIDAYS = [loaded |-> FALSE]
    /\ start_date_str = NoneVal /\ end_date_str = NoneVal
    /\ days = <<>> /\ dpc = "idle"

InitOther ==
    /\ InitDaysIdle
    /\ InitBatchIdle
    /\ InitResolverIdle
    /\ raw = NoneVal /\ normalized = NoneVal /\ npc = "idle"
    /\ matter = NoRecord /\ weeks = 0 /\ cutoff = <<>> /\ cpc = "idle"
    /\ reference = <<>> /\ skip = <<>>

Init ==
    /\ merger \in {NoRecord, LegacyRecord}
    /\ prior = NoRecord
    /\ page = NoPage
    /\ scraped = <<>>
    /\ runs = 0
    /\ InitOther

Rescrape ==
    /\ runs < MaxRuns
    /\ \E p \in Pages :
        LET scraped_events == ParseEvents(p)
        IN /\ page' = p
           /\ scraped' = scraped_events
           /\ prior' = merger
           /\ merger' = ReconcileRecord(p, scraped_events, merger)
    /\ runs' = runs + 1
    /\ UNCHANGED <<raw, normalized, npc, matter, weeks, cutoff, cpc, reference, skip>>
    /\ UNCHANGED daysVars
    /\ UNCHANGED batchVars
    /\ UNCHANGED resolverVars

Next == Rescrape

Spec == Init /\ [][Next]_vars

(***************************************************************************)
(* Properties of the reconciler.                                           *)
(***************************************************************************)
HasEvents(record) == record # NoRecord /\ "events" \in DOMAIN record

\* the url of an event identifies it, its title when it has no url
SameKey(e, f) ==
    IF "url" \in DOMAIN e
    THEN "url" \in DOMAIN f /\ f.url = e.url
    ELSE "url" \notin DOMAIN f /\ f.title = e.title

Observed(e) == \E i \in 1..Len(scraped) : SameKey(e, scraped[i])

\* what the merge makes of a prior event: the scraped event when the scrape
\* lists it, the prior event otherwise
MergedVersion(e) ==
    IF Observed(e)
    THEN scraped[CHOOSE i \in 1..Len(scraped) : SameKey(e, scraped[i])]
    ELSE e

\* an event the determination event of the record supersedes
Superseded(e) ==
    /\ Truthy(Get(merger, "determination_publication_date"))
    /\ StartsWith(e.title, "Determination published:")
    /\ e.date = merger.determination_publication_date

Indexes(events, Test(_)) == { i \in 1..Len(events) : Test(events[i]) }

\* C1: reconciling the same page again, against the record the reconcile just
\* produced, returns that record: the same events in the same order, none
\* duplicated, dropped or changed.
C1_ReconcileIdempotent ==
    runs > 0 => ReconcileRecord(page, scraped, merger) = merger

C1_Witness ==
    /\ runs > 0 /\ HasEvents(prior)
    /\ \E i \in 1..Len(merger.events) :
           "url" \in DOMAIN merger.events[i] /\ Observed(merger.events[i])
    /\ \E i \in 1..Len(merger.events) : ~Observed(merger.events[i])
    /\ HasTitle(merger.events, NotificationTitle)
    /\ Truthy(Get(merger, "determination_publication_date"))

\* C2 as claimed: every event of the prior list has an entry with the same
\* key in the merged list, which is therefore not shorter than the prior list.
C2_NoEventDeleted ==
    (runs > 0 /\ HasEvents(prior)) =>
        /\ \A i \in 1..Len(prior.events) :
               \E j \in 1..Len(merger.events) : SameKey(prior.events[i], merger.events[j])
        /\ Len(merger.events) >= Len(prior.events)

\* C2 as amended: every event of the prior list has an entry with the same key
\* in the merged list, except an event whose merged version carries an
\* old-format determination title and the date of the determination; the merged
\* list is not shorter than the prior list less those events.
C2_NoEventDeletedUnlessSuperseded ==
    (runs > 0 /\ HasEvents(prior)) =>
        /\ \A i \in 1..Len(prior.events) :
               \/ Superseded(MergedVersion(prior.events[i]))
               \/ \E j \in 1..Len(merger.events) :
                      SameKey(prior.events[i], merger.events[j])
        /\ Len(merger.events) >= Len(prior.events)
               - Cardinality(Indexes(prior.events, LAMBDA e : Superseded(MergedVersion(e))))

C2_Witness ==
    /\ runs > 0 /\ HasEvents(prior)
    /\ \E i \in 1..Len(prior.events) :
           /\ ~Observed(prior.events[i])
           /\ StartsWith(prior.events[i].title, "Determination published:")
           /\ ~Superseded(prior.events[i])
           /\ \E j \in 1..Len(merger.events) : SameKey(prior.events[i], merger.events[j])
    /\ \E i \in 1..Len(prior.events) : Observed(prior.events[i])

\* C3 as claimed: a prior event whose url the scrape does not list is in the
\* merged list with status "removed" and every other field as before.
C3_RemovedKeepsFields ==
    (runs > 0 /\ HasEvents(prior)) =>
        \A i \in 1..Len(prior.events) :
            ("url" \in DOMAIN prior.events[i] /\ ~Observed(prior.events[i])) =>
                \E j \in 1..Len(merger.events) :
                    merger.events[j] = Put(prior.events[i], "status", "removed")

\* C3 as amended: the same, unless the prior event carries an old-format
\* determination title and the date of the determination.
C3_RemovedKeepsFieldsUnlessSuperseded ==
    (runs > 0 /\ HasEvents(prior)) =>
        \A i \in 1..Len(prior.events) :
            ("url" \in DOMAIN prior.events[i] /\ ~Observed(prior.events[i])
             /\ ~Superseded(prior.events[i])) =>
                \E j \in 1..Len(merger.events) :
                    merger.events[j] = Put(prior.events[i], "status", "removed")

C3_Witness ==
    /\ runs > 0 /\ HasEvents(prior)
    /\ \E i \in 1..Len(prior.events) :
           /\ "url" \in DOMAIN prior.events[i] /\ ~Observed(prior.events[i])
           /\ prior.events[i].status = "live"
           /\ \E j \in 1..Len(merger.events) :
                  /\ SameKey(prior.events[i], merger.events[j])
                  /\ merger.events[j].status = "removed"

\* C4: an event of the merged list that has the key of a prior event with a
\* display_title carries that display_title.
C4_DisplayTitleKept ==
    (runs > 0 /\ HasEvents(prior)) =>
        \A i \in 1..Len(prior.events) : \A j \in 1..Len(merger.events) :
            ("display_title" \in DOMAIN prior.events[i]
             /\ SameKey(prior.events[i], merger.events[j])) =>
                /\ "display_title" \in DOMAIN merger.events[j]
                /\ merger.events[j].display_title = prior.events[i].display_title

C4_Witness ==
    /\ runs > 0 /\ HasEvents(prior)
    /\ \E i \in 1..Len(prior.events) : \E j \in 1..Len(merger.events) :
           /\ "url" \in DOMAIN prior.events[i]
           /\ Observed(prior.events[i])
           /\ SameKey(prior.events[i], merger.events[j])
           /\ prior.events[i].display_title # prior.events[i].title
           /\ merger.events[j].title # prior.events[i].title
           /\ merger.events[j].display_title = prior.events[i].display_title
    /\ \E i \in 1..Len(prior.events) : \E j \in 1..Len(merger.events) :
           /\ "url" \notin DOMAIN prior.events[i]
           /\ Observed(prior.events[i])
           /\ SameKey(prior.events[i], merger.events[j])
           /\ merger.events[j].display_title # merger.events[j].title

\* C5: no two events of the record share a url, and no two events without a
\* url share a title.
C5_EventsDeduplicated ==
    HasEvents(merger) => Deduplicated(merger.events)

C5_Witness ==
    /\ runs > 1
    /\ Len(merger.events) >= 5
    /\ \E i \in 1..Len(merger.events) :
           "url" \in DOMAIN merger.events[i] /\ Observed(merger.events[i])
    /\ \E i \in 1..Len(merger.events) :
           "url" \notin DOMAIN merger.events[i] /\ Observed(merger.events[i])

\* C6 as claimed: a record with a notification date has exactly one event
\* titled "Merger notified to ACCC", dated with that notification date.
C6_NotificationEventDated ==
    (runs > 0 /\ Truthy(Get(merger, "effective_notification_datetime"))) =>
        LET notified == Indexes(merger.events, LAMBDA e : e.title = NotificationTitle)
        IN /\ Cardinality(notified) = 1
           /\ \A i \in notified :
                  merger.events[i].date = merger.effective_notification_datetime

\* the determination of the page as the shared normalizer gives it, "Decision
\* made" when the page has none
ResolvedDetermination ==
    IF "det_text" \in DOMAIN page
    THEN Str(NormalizeDetermination(page.det_text))
    ELSE "Decision made"

\* C7 as claimed: a record with a determination date has an event titled
\* "<stage> determination: <normalized determination>" with that date, the
\* determination normalized with "not approved" tested before "approved", and
\* has no old-format determination event with that date.
C7_DeterminationEventTitled ==
    (runs > 0 /\ Truthy(Get(merger, "determination_publication_date"))) =>
        /\ \E i \in 1..Len(merger.events) :
               /\ merger.events[i].title =
                      Str(merger.stage) \o " determination: " \o ResolvedDetermination
               /\ merger.events[i].date = merger.determination_publication_date
        /\ \A i \in 1..Len(merger.events) : ~Superseded(merger.events[i])

\* an event the extractor adds by itself
IsSynthetic(e) ==
    \/ /\ Truthy(Get(merger, "effective_notification_datetime"))
       /\ e = [date |-> merger.effective_notification_datetime,
               title |-> NotificationTitle, display_title |-> NotificationTitle]
    \/ /\ Truthy(Get(merger, "determination_publication_date"))
       /\ e = [date |-> merger.determination_publication_date,
               title |-> DeterminationTitle(merger),
               display_title |-> DeterminationTitle(merger)]

\* the merged list is the list expected, display_title being title on each,
\* followed by synthetic events only
ExpectedThenSynthetic(expected) ==
    /\ Len(merger.events) >= Len(expected)
    /\ SubSeq(merger.events, 1, Len(expected)) = expected
    /\ \A i \in 1..Len(expected) :
           /\ "display_title" \in DOMAIN merger.events[i]
           /\ merger.events[i].display_title = merger.events[i].title
    /\ \A i \in (Len(expected) + 1)..Len(merger.events) : IsSynthetic(merger.events[i])

\* C8 as claimed: on the first scrape of a matter the merged list is the
\* scraped list in its order, display_title defaulted to title, followed only
\* by the synthetic events.
C8_FirstScrapeIsScraped ==
    (runs = 1 /\ prior = NoRecord) => ExpectedThenSynthetic(scraped)

\* C8 as amended: the same, for the scraped list less the events that carry an
\* old-format determination title and the date of the determination.
C8_FirstScrapeIsScrapedUnlessSuperseded ==
    (runs = 1 /\ prior = NoRecord) =>
        ExpectedThenSynthetic(SelectSeq(scraped, LAMBDA e : ~Superseded(e)))

C8_Witness ==
    /\ runs = 1 /\ prior = NoRecord
    /\ \E i \in 1..Len(scraped) : "url" \in DOMAIN scraped[i]
    /\ \E i \in 1..Len(scraped) : "url" \notin DOMAIN scraped[i]
    /\ Len(scraped) = 2
    /\ Len(merger.events) = 4

(***************************************************************************)
(* The shared normalizer applied to one raw determination text.            *)
(***************************************************************************)
DeterminationPrefixes == {"", "ACCC Determination", "ACCC Determination "}

DeterminationTexts ==
    {"Not approved", "not approved", "Not Approved", "NOT APPROVED",
     "This is Not approved", "Approved", "approved", "APPROVED",
     "Declined", "declined", "Not opposed", "not opposed", "Not Opposed",
     "Pending", "Unknown Status"}

RawDeterminations ==
    { prefix \o text \o suffix :
          prefix \in DeterminationPrefixes, text \in DeterminationTexts,
          suffix \in {"", " "} }

InitReconcilerIdle ==
    /\ merger = NoRecord /\ prior = NoRecord /\ page = NoPage
    /\ scraped = <<>> /\ runs = 0

InitNormalize ==
    /\ InitDaysIdle
    /\ InitBatchIdle
    /\ InitResolverIdle
    /\ raw \in RawDeterminations
    /\ normalized = NoneVal
    /\ npc = "start"
    /\ matter = NoRecord /\ weeks = 0 /\ cutoff = <<>> /\ cpc = "idle"
    /\ reference = <<>> /\ skip = <<>>
    /\ InitReconcilerIdle

Normalize ==
    /\ npc = "start"
    /\ normalized' = NormalizeDetermination(raw)
    /\ npc' = "done"
    /\ UNCHANGED <<merger, prior, page, scraped, runs, raw, matter, weeks, cutoff, cpc,
                   reference, skip>>
    /\ UNCHANGED daysVars
    /\ UNCHANGED batchVars
    /\ UNCHANGED resolverVars

NextNormalize == Normalize

SpecNormalize == InitNormalize /\ [][NextNormalize]_vars

\* the raw text without the regulator prefix, trimmed
WithoutPrefix(text) == Strip(Replace(text, "ACCC Determination", ""))

\* C9 as claimed: the normalizer matches in any letter case, "not approved"
\* first, then "approved", "declined" and "not opposed"; a text with none of
\* the four is returned trimmed.
C9_NormalizeAnyCase ==
    npc = "done" =>
        LET text == Lower(WithoutPrefix(raw))
        IN IF Contains("not approved", text) THEN normalized = "Not approved"
           ELSE IF Contains("approved", text) THEN normalized = "Approved"
           ELSE IF Contains("declined", text) THEN normalized = "Declined"
           ELSE IF Contains("not opposed", text) THEN normalized = "Not opposed"
           ELSE normalized = WithoutPrefix(raw)

(***************************************************************************)
(* scripts/date_utils.py: parse_iso_datetime.  A datetime is a record of   *)
(* its proleptic ordinal day "ord" and its second of the day "sec", with   *)
(* "tz", the utc offset in minutes, when it is timezone-aware.  None is    *)
(* NoDate.                                                                 *)
(***************************************************************************)
NoDate == <<>>

RECURSIVE DaysBeforeMonth(_, _)
DaysBeforeMonth(y, m) ==
    IF m = 1 THEN 0 ELSE DaysBeforeMonth(y, m - 1) + DaysInMonth(y, m - 1)

\* date(y, m, d).toordinal()
ToOrdinal(y, m, d) ==
    365 * (y - 1) + ((y - 1) \div 4) - ((y - 1) \div 100) + ((y - 1) \div 400)
        + DaysBeforeMonth(y, m) + d

\* the ordinal of a "YYYY-MM-DD" text, 0 if it is no date of the calendar
DateOrdinal(s) ==
    IF /\ Len(s) = 10
       /\ SubSeq(s, 5, 5) = "-" /\ SubSeq(s, 8, 8) = "-"
       /\ IsNumber(SubSeq(s, 1, 4)) /\ IsNumber(SubSeq(s, 6, 7)) /\ IsNumber(SubSeq(s, 9, 10))
    THEN LET y == ToInt(SubSeq(s, 1, 4))
             m == ToInt(SubSeq(s, 6, 7))
             d == ToInt(SubSeq(s, 9, 10))
         IN IF y >= 1 /\ m \in 1..12 /\ d >= 1 /\ d <= DaysInMonth(y, m)
            THEN ToOrdinal(y, m, d) ELSE 0
    ELSE 0

\* the second of the day of an "HH:MM:SS" text, -1 if it is no time of the day
TimeSeconds(s) ==
    IF /\ Len(s) = 8
       /\ SubSeq(s, 3, 3) = ":" /\ SubSeq(s, 6, 6) = ":"
       /\ IsNumber(SubSeq(s, 1, 2)) /\ IsNumber(SubSeq(s, 4, 5)) /\ IsNumber(SubSeq(s, 7, 8))
    THEN LET h == ToInt(SubSeq(s, 1, 2))
             m == ToInt(SubSeq(s, 4, 5))
             sec == ToInt(SubSeq(s, 7, 8))
         IN IF h <= 23 /\ m <= 59 /\ sec <= 59 THEN 3600 * h + 60 * m + sec ELSE -1
    ELSE -1

NoOffset == 100000

\* the minutes of a "+HH:MM" or "-HH:MM" text, NoOffset if it is no utc offset
OffsetMinutes(s) ==
    IF /\ Len(s) = 6
       /\ SubSeq(s, 1, 1) \in {"+", "-"} /\ SubSeq(s, 4, 4) = ":"
       /\ IsNumber(SubSeq(s, 2, 3)) /\ IsNumber(SubSeq(s, 5, 6))
       /\ ToInt(SubSeq(s, 2, 3)) <= 23 /\ ToInt(SubSeq(s, 5, 6)) <= 59
    THEN LET minutes == 60 * ToInt(SubSeq(s, 2, 3)) + ToInt(SubSeq(s, 5, 6))
         IN IF SubSeq(s, 1, 1) = "-" THEN 0 - minutes ELSE minutes
    ELSE NoOffset

\* datetime.strptime(s, '%Y-%m-%d') of a zero-padded text
StrpDate(s) ==
    IF DateOrdinal(s) = 0 THEN NoDate ELSE [ord |-> DateOrdinal(s), sec |-> 0]

\* datetime.fromisoformat for "YYYY-MM-DD" and for "YYYY-MM-DDTHH:MM:SS" with
\* or without an offset; NoDate stands for the ValueError it raises
FromIsoFormat(s) ==
    IF Len(s) = 10 THEN StrpDate(s)
    ELSE IF Len(s) \notin {19, 25} \/ SubSeq(s, 11, 11) # "T" THEN NoDate
    ELSE LET ord == DateOrdinal(SubSeq(s, 1, 10))
             sec == TimeSeconds(SubSeq(s, 12, 19))
         IN IF ord = 0 \/ sec < 0 THEN NoDate
            ELSE IF Len(s) = 19 THEN [ord |-> ord, sec |-> sec]
            ELSE LET off == OffsetMinutes(SubSeq(s, 20, 25))
                 IN IF off = NoOffset THEN NoDate
                    ELSE [ord |-> ord, sec |-> sec, tz |-> off]

\* parse_iso_datetime
ParseIsoDatetime(date_str) ==
    IF ~Truthy(date_str) THEN NoDate
    ELSE IF Contains("T", date_str)
         THEN IF EndsWith(date_str, "Z")
              THEN FromIsoFormat(Replace(date_str, "Z", "+00:00"))
              ELSE FromIsoFormat(date_str)
         ELSE StrpDate(date_str)

(***************************************************************************)
(* scripts/cutoff.py.  A call either returns a value or raises:            *)
(* Return(v) and Raise(e).                                                 *)
(***************************************************************************)
CUTOFF_WEEKS == 3

Return(v) == [value |-> v]

Raise(e) == [raised |-> e]

Raised(result) == "raised" \in DOMAIN result

\* d + timedelta(weeks=w)
PlusWeeks(d, w) == [d EXCEPT !.ord = @ + 7 * w]

\* is_waiver_merger by the id alone
IsWaiverMergerByIdOnly(m) ==
    LET merger_id == GetOr(m, "merger_id", "")
    IN IF merger_id = NoneVal THEN Raise("AttributeError")
       ELSE Return(StartsWith(merger_id, "WA-"))

\* is_waiver_merger
IsWaiverMerger(m) ==
    LET merger_id == GetOr(m, "merger_id", "")
        stage == GetOr(m, "stage", "")
    IN IF merger_id = NoneVal THEN Raise("AttributeError")
       ELSE IF StartsWith(merger_id, "WA-") THEN Return(TRUE)
       ELSE IF stage = NoneVal THEN Raise("TypeError")
       ELSE Return(Contains("Waiver", stage))

\* get_cutoff_date asking is_waiver_merger before it looks at the date
GetCutoffDateWaiverFirst(m, cutoff_weeks) ==
    LET determination_date == ParseIsoDatetime(Get(m, "determination_publication_date"))
    IN IF Raised(IsWaiverMerger(m)) THEN IsWaiverMerger(m)
       ELSE IF determination_date = NoDate THEN Return(NoDate)
       ELSE IF IsWaiverMerger(m).value \/ GetOr(m, "accc_determination", "") = "Approved"
            THEN Return(PlusWeeks(determination_date, cutoff_weeks))
       ELSE Return(NoDate)

\* get_cutoff_date with a test for a substring in place of the comparison
GetCutoffDateSubstring(m, cutoff_weeks) ==
    LET determination_date == ParseIsoDatetime(Get(m, "determination_publication_date"))
    IN IF determination_date = NoDate THEN Return(NoDate)
       ELSE IF Raised(IsWaiverMerger(m)) THEN IsWaiverMerger(m)
       ELSE IF IsWaiverMerger(m).value
            THEN Return(PlusWeeks(determination_date, cutoff_weeks))
       ELSE IF Contains("pproved", GetOr(m, "accc_determination", ""))
            THEN Return(PlusWeeks(determination_date, cutoff_weeks))
       ELSE Return(NoDate)

\* get_cutoff_date
GetCutoffDate(m, cutoff_weeks) ==
    LET determination_date == ParseIsoDatetime(Get(m, "determination_publication_date"))
    IN IF determination_date = NoDate THEN Return(NoDate)
       ELSE IF Raised(IsWaiverMerger(m)) THEN IsWaiverMerger(m)
       ELSE IF IsWaiverMerger(m).value
            THEN Return(PlusWeeks(determination_date, cutoff_weeks))
       ELSE IF GetOr(m, "accc_determination", "") = "Approved"
            THEN Return(PlusWeeks(determination_date, cutoff_weeks))
       ELSE Return(NoDate)

(***************************************************************************)
(* The cutoff of one record of mergers.json.                               *)
(***************************************************************************)
DeterminationDates ==
    {"2025-01-01T12:00:00Z", "2024-02-29T23:59:59+10:00", "2024-12-25T00:00:00",
     "2024-01-01", "2025-13-45", "invalid-date", ""}

PersistedDeterminations ==
    {"Approved", "Not approved", "Declined", "Not opposed", "Pending", ""}

\* the records: "stage" is a text, null as the extractor writes it for a page
\* without the field, or missing
Matters ==
    { id @@ stage @@ date @@ determination :
          id \in {[merger_id |-> "MN-01016"], [merger_id |-> "WA-00042"]},
          stage \in {<<>>, [stage |-> NoneVal], [stage |-> "Phase 1"],
                     [stage |-> "Waiver application"]},
          date \in {<<>>} \cup {[determination_publication_date |-> d] :
                                    d \in DeterminationDates},
          determination \in {<<>>} \cup {[accc_determination |-> t] :
                                             t \in PersistedDeterminations} }

InitCutoff ==
    /\ InitDaysIdle
    /\ InitBatchIdle
    /\ InitResolverIdle
    /\ matter \in Matters
    /\ weeks \in {CUTOFF_WEEKS, 1, 5}
    /\ cutoff = NoDate
    /\ cpc = "start"
    /\ reference = <<>> /\ skip = <<>>
    /\ raw = NoneVal /\ normalized = NoneVal /\ npc = "idle"
    /\ InitReconcilerIdle

Cutoff ==
    /\ cpc = "start"
    /\ cutoff' = GetCutoffDate(matter, weeks)
    /\ cpc' = "done"
    /\ UNCHANGED <<merger, prior, page, scraped, runs, raw, normalized, npc, matter, weeks,
                   reference, skip>>
    /\ UNCHANGED daysVars
    /\ UNCHANGED batchVars
    /\ UNCHANGED resolverVars

NextCutoff == Cutoff

SpecCutoff == InitCutoff /\ [][NextCutoff]_vars

\* the determination instant of the record
DeterminationAt == ParseIsoDatetime(Get(matter, "determination_publication_date"))

\* a record is_waiver_merger tells to be no waiver
Ordinary(m) == IsWaiverMerger(m) = Return(FALSE)

\* C10: for an ordinary matter with a parseable determination date,
\* get_cutoff_date returns that date plus cutoff_weeks weeks if the persisted
\* determination is "Approved", and None for every other or no determination.
C10_CutoffIffApproved ==
    (cpc = "done" /\ Ordinary(matter) /\ DeterminationAt # NoDate) =>
        IF Get(matter, "accc_determination") = "Approved"
        THEN cutoff = Return([DeterminationAt EXCEPT !.ord = @ + 7 * weeks])
        ELSE cutoff = Return(NoDate)

C10_Witness ==
    /\ cpc = "done" /\ Ordinary(matter)
    /\ Get(matter, "accc_determination") = "Approved"
    /\ Get(matter, "determination_publication_date") = "2024-02-29T23:59:59+10:00"
    /\ weeks = 5
    /\ cutoff = Return([ord |-> ToOrdinal(2024, 4, 4), sec |-> 86399, tz |-> 600])

(***************************************************************************)
(* scripts/cutoff.py: should_skip_merger, over the records of mergers.json *)
(* as a caller builds them or as the extractor persists them from a page.  *)
(***************************************************************************)
IsAware(d) == "tz" \in DOMAIN d

\* d.replace(tzinfo=None)
ReplaceTzinfoNone(d) == [ord |-> d.ord, sec |-> d.sec]

\* the day and the second of the day of an instant in utc (of a naive
\* instant: as it reads)
UtcSeconds(d) == d.sec - (IF IsAware(d) THEN 60 * d.tz ELSE 0)

UtcDay(d) ==
    IF UtcSeconds(d) < 0 THEN d.ord - 1
    ELSE IF UtcSeconds(d) >= 86400 THEN d.ord + 1 ELSE d.ord

UtcSecondOfDay(d) == (UtcSeconds(d) + 86400) % 86400

\* a >= b in place of a > b
DatetimeGreaterOrEqual(a, b) ==
    IF IsAware(a) # IsAware(b) THEN Raise("TypeError")
    ELSE Return(\/ UtcDay(a) > UtcDay(b)
                \/ UtcDay(a) = UtcDay(b) /\ UtcSecondOfDay(a) >= UtcSecondOfDay(b))

\* a > b of two datetimes: TypeError when one is aware and the other naive
DatetimeGreater(a, b) ==
    IF IsAware(a) # IsAware(b) THEN Raise("TypeError")
    ELSE Return(\/ UtcDay(a) > UtcDay(b)
                \/ UtcDay(a) = UtcDay(b) /\ UtcSecondOfDay(a) > UtcSecondOfDay(b))

\* should_skip_merger without lines 76-80
ShouldSkipMergerAsGiven(m, reference_date, cutoff_weeks, now) ==
    LET ref == IF reference_date = NoDate THEN now ELSE reference_date
        cutoff_date == GetCutoffDate(m, cutoff_weeks)
    IN IF Raised(cutoff_date) THEN cutoff_date
       ELSE IF cutoff_date.value = NoDate THEN Return(FALSE)
       ELSE DatetimeGreater(ref, cutoff_date.value)

\* should_skip_merger; now is what datetime.now(tz=None) returns
ShouldSkipMerger(m, reference_date, cutoff_weeks, now) ==
    LET ref == IF reference_date = NoDate THEN now ELSE reference_date
        cutoff_date == GetCutoffDate(m, cutoff_weeks)
    IN IF Raised(cutoff_date) THEN cutoff_date
       ELSE IF cutoff_date.value = NoDate THEN Return(FALSE)
       ELSE IF IsAware(cutoff_date.value) /\ ~IsAware(ref)
            THEN DatetimeGreater(ref, ReplaceTzinfoNone(cutoff_date.value))
       ELSE IF ~IsAware(cutoff_date.value) /\ IsAware(ref)
            THEN DatetimeGreater(ReplaceTzinfoNone(ref), cutoff_date.value)
       ELSE DatetimeGreater(ref, cutoff_date.value)

\* the instants a caller passes as reference_date
ReferenceDates ==
    { ParseIsoDatetime(t) :
          t \in {"2024-01-01T00:00:00", "2025-01-22T12:00:00", "2025-01-22T12:00:01",
                 "2030-06-30T00:00:00", "2025-01-22T12:00:00Z",
                 "2025-01-22T22:00:00+10:00", "2025-01-22T12:00:01+00:00",
                 "2030-06-30T00:00:00+10:00"} }

\* what datetime.now(tz=None) may return
Clock == { d \in ReferenceDates : ~IsAware(d) }

\* the pages of matters with a determination, as the extractor reads them
DeterminedPages ==
    { [merger_id |-> id, stage |-> stage, notified |-> "2024-11-04T12:00:00Z",
       det_date |-> "2025-01-01T12:00:00Z", det_text |-> text, rows |-> <<>>] :
          id \in {"MN-01016", "WA-00042"},
          stage \in {"Stage Phase 1", "Stage Phase 2"},
          text \in {"Not approved", "ACCC DeterminationNot approved",
                    "ACCC DeterminationApproved", "ACCC DeterminationDeclined"} }

InitSkip ==
    /\ InitDaysIdle
    /\ InitBatchIdle
    /\ InitResolverIdle
    /\ page \in DeterminedPages \cup {NoPage}
    /\ matter \in (IF page = NoPage THEN Matters ELSE {NoRecord})
    /\ cpc = (IF page = NoPage THEN "start" ELSE "page")
    /\ weeks \in {CUTOFF_WEEKS, 1}
    /\ reference \in ReferenceDates \cup {NoDate}
    /\ cutoff = NoDate /\ skip = <<>>
    /\ merger = NoRecord /\ prior = NoRecord /\ scraped = <<>> /\ runs = 0
    /\ raw = NoneVal /\ normalized = NoneVal /\ npc = "idle"

\* the extractor persists the record of the page, which the cutoff reads
Persist ==
    /\ cpc = "page"
    /\ matter' = ParseMergerFile(page, NoRecord)
    /\ cpc' = "start"
    /\ UNCHANGED <<merger, prior, page, scraped, runs, raw, normalized, npc, weeks, cutoff,
                   reference, skip>>
    /\ UNCHANGED daysVars
    /\ UNCHANGED batchVars
    /\ UNCHANGED resolverVars

ShouldSkip ==
    /\ cpc = "start"
    /\ \E now \in Clock :
          /\ reference' = (IF reference = NoDate THEN now ELSE reference)
          /\ skip' = ShouldSkipMerger(matter, reference, weeks, now)
    /\ cutoff' = GetCutoffDate(matter, weeks)
    /\ cpc' = "done"
    /\ UNCHANGED <<merger, prior, page, scraped, runs, raw, normalized, npc, matter, weeks>>
    /\ UNCHANGED daysVars
    /\ UNCHANGED batchVars
    /\ UNCHANGED resolverVars

NextSkip == Persist \/ ShouldSkip

SpecSkip == InitSkip /\ [][NextSkip]_vars

\* C11: an ordinary matter whose page gives the determination "Not approved"
\* is never skipped, whatever the reference instant, once the extractor has
\* persisted its record and should_skip_merger has read it.
C11_NotApprovedNeverSkipped ==
    ( /\ cpc = "done" /\ page # NoPage
      /\ WithoutPrefix(page.det_text) = "Not approved"
      /\ Ordinary(matter) )
        => skip = Return(FALSE)

\* a matter the text of its id or of its stage makes a waiver
WaiverMatter(m) ==
    \/ StartsWith(Str(Get(m, "merger_id")), "WA-")
    \/ Contains("Waiver", Str(Get(m, "stage")))

WallClock(d) == <<d.ord, d.sec>>

Utc(d) == <<UtcDay(d), UtcSecondOfDay(d)>>

PairLater(a, b) == a[1] > b[1] \/ (a[1] = b[1] /\ a[2] > b[2])

\* a is strictly later than b: as instants when both carry an offset, as
\* they read otherwise
StrictlyLater(a, b) ==
    IF IsAware(a) /\ IsAware(b) THEN PairLater(Utc(a), Utc(b))
    ELSE PairLater(WallClock(a), WallClock(b))

\* C12: for a waiver matter (id starting with "WA-" or stage containing
\* "Waiver") with a parseable determination date, the cutoff is that date
\* plus cutoff_weeks weeks whatever the determination is, and the matter is
\* skipped at every reference instant later than the cutoff.
C12_WaiverCutoffAnyDetermination ==
    (cpc = "done" /\ WaiverMatter(matter) /\ DeterminationAt # NoDate) =>
        /\ cutoff = Return([DeterminationAt EXCEPT !.ord = @ + 7 * weeks])
        /\ StrictlyLater(reference, cutoff.value) => skip = Return(TRUE)

C12_Witness ==
    /\ cpc = "done"
    /\ Get(matter, "merger_id") = "MN-01016"
    /\ Get(matter, "stage") = "Waiver application"
    /\ Get(matter, "accc_determination") = "Not approved"
    /\ DeterminationAt # NoDate
    /\ skip = Return(TRUE)

\* C13: a determination date that is missing or does not parse gives no
\* cutoff and no skip, without an exception, whatever the id, the stage and
\* the determination of the matter.
C13_NoDateNoCutoff ==
    (cpc = "done" /\ DeterminationAt = NoDate) =>
        cutoff = Return(NoDate) /\ skip = Return(FALSE)

C13_Witness ==
    /\ cpc = "done"
    /\ Get(matter, "determination_publication_date") = "2025-13-45"
    /\ "stage" \in DOMAIN matter /\ matter.stage = NoneVal
    /\ Get(matter, "accc_determination") = "Approved"
    /\ reference = ParseIsoDatetime("2030-06-30T00:00:00")
    /\ skip = Return(FALSE)

\* C14: should_skip_merger returns true exactly when get_cutoff_date gives a
\* cutoff instant and the reference is strictly later than it; at the cutoff
\* instant itself, and without a cutoff instant, it returns false.
C14_SkipIffStrictlyLater ==
    (cpc = "done" /\ ~Raised(cutoff)) =>
        skip = Return(cutoff.value # NoDate /\ StrictlyLater(reference, cutoff.value))

C14_Witness ==
    /\ cpc = "done" /\ ~Raised(cutoff)
    /\ cutoff.value = ParseIsoDatetime("2025-01-22T12:00:00Z")
    /\ reference = ParseIsoDatetime("2025-01-22T22:00:00+10:00")
    /\ skip = Return(FALSE)

\* C15: whether the cutoff and the reference carry a utc offset or not,
\* should_skip_merger returns a boolean; when exactly one of them carries an
\* offset, the offset is dropped and the two are compared as they read.
C15_NoTimezoneMismatch ==
    (cpc = "done" /\ ~Raised(cutoff) /\ cutoff.value # NoDate) =>
        /\ skip \in {Return(TRUE), Return(FALSE)}
        /\ IsAware(cutoff.value) # IsAware(reference)
              => skip = Return(PairLater(WallClock(reference), WallClock(cutoff.value)))

C15_Witness ==
    /\ cpc = "done" /\ ~Raised(cutoff) /\ cutoff.value # NoDate
    /\ IsAware(cutoff.value) /\ ~IsAware(reference)
    /\ skip = Return(TRUE)

(***************************************************************************)
(* The day counters: calculate_business_days and calculate_calendar_days   *)
(* of scripts/generate_static_data.py, and calculate_business_days of      *)
(* merger-tracker/backend/business_days.py.  A counter returns an integer, *)
(* Return(n), or None, ReturnNone, or raises.                              *)
(***************************************************************************)
ReturnNone == [none |-> TRUE]

\* datetime.year, .month and .day of an ordinal
RECURSIVE YearFrom(_, _)
YearFrom(ord, y) == IF ToOrdinal(y + 1, 1, 1) > ord THEN y ELSE YearFrom(ord, y + 1)

Year(ord) == YearFrom(ord, ord \div 366 + 1)

RECURSIVE MonthFrom(_, _, _)
MonthFrom(ord, y, m) ==
    IF m = 12 \/ ToOrdinal(y, m + 1, 1) > ord THEN m ELSE MonthFrom(ord, y, m + 1)

Month(ord) == MonthFrom(ord, Year(ord), 1)

Day(ord) == ord - ToOrdinal(Year(ord), Month(ord), 1) + 1

\* datetime.weekday(): 0 is Monday
Weekday(ord) == (ord + 6) % 7

\* date.strftime('%Y-%m-%d')
StrfDate(ord) ==
    ZeroPadded(Year(ord), 4) \o "-" \o ZeroPadded(Month(ord), 2) \o "-"
        \o ZeroPadded(Day(ord), 2)

\* is_christmas_new_year_period
IsChristmasNewYearPeriod(ord) ==
    \/ Month(ord) = 12 /\ Day(ord) >= 23
    \/ Month(ord) = 1 /\ Day(ord) <= 10

\* is_business_day
IsBusinessDay(ord, holidays) ==
    /\ Weekday(ord) \notin {5, 6}
    /\ ~IsChristmasNewYearPeriod(ord)
    /\ StrfDate(ord) \notin holidays

\* _count_weekdays_in_range, of two midnights
CountWeekdaysInRange(start, end) ==
    IF start > end THEN 0
    ELSE LET total_days == end - start + 1
             full_weeks == total_days \div 7
             remainder == total_days % 7
         IN full_weeks * 5
                + Cardinality({i \in 0..(remainder - 1) : (Weekday(start) + i) % 7 < 5})

Max(a, b) == IF a > b THEN a ELSE b

Min(a, b) == IF a < b THEN a ELSE b

\* lines 129-139: the weekdays of [start, end] in the closure periods that
\* begin in the years year..last
RECURSIVE ChristmasWeekdays(_, _, _, _)
ChristmasWeekdays(year, last, start, end) ==
    IF year > last THEN 0
    ELSE LET overlap_start == Max(ToOrdinal(year, 12, 23), start)
             overlap_end == Min(ToOrdinal(year + 1, 1, 10), end)
         IN (IF overlap_start <= overlap_end
             THEN CountWeekdaysInRange(overlap_start, overlap_end) ELSE 0)
                + ChristmasWeekdays(year + 1, last, start, end)

\* the holidays subtracted, those of the closure periods too
HolidaysSubtractedInClosure(start, end, holidays) ==
    { h \in holidays :
          LET holiday == StrpDate(h).ord
          IN start <= holiday /\ holiday <= end /\ Weekday(holiday) < 5 }

\* lines 142-146: the holidays subtracted
HolidaysSubtracted(start, end, holidays) ==
    { h \in holidays :
          LET holiday == StrpDate(h).ord
          IN /\ start <= holiday /\ holiday <= end
             /\ Weekday(holiday) < 5 /\ ~IsChristmasNewYearPeriod(holiday) }

\* calculate_business_days of generate_static_data.py, given PUBLIC_HOLIDAYS
CalculateBusinessDays(start_str, end_str, holidays) ==
    IF ~Truthy(start_str) \/ ~Truthy(end_str) THEN ReturnNone
    ELSE LET start_dt == FromIsoFormat(Replace(start_str, "Z", "+00:00"))
             end_dt == FromIsoFormat(Replace(end_str, "Z", "+00:00"))
         IN IF start_dt = NoDate \/ end_dt = NoDate THEN ReturnNone
            ELSE LET start == start_dt.ord
                     end == end_dt.ord
                 IN IF start > end THEN Return(0)
                    ELSE IF Year(start) - 1 < 1 THEN ReturnNone
                    ELSE IF \E h \in holidays : StrpDate(h) = NoDate THEN ReturnNone
                    ELSE Return(Max(CountWeekdaysInRange(start, end)
                                      - ChristmasWeekdays(Year(start) - 1, Year(end), start, end)
                                      - Cardinality(HolidaysSubtracted(start, end, holidays)),
                                    0))

\* calculate_calendar_days
CalculateCalendarDays(start_str, end_str) ==
    IF ~Truthy(start_str) \/ ~Truthy(end_str) THEN ReturnNone
    ELSE LET start == FromIsoFormat(Replace(start_str, "Z", "+00:00"))
             end == FromIsoFormat(Replace(end_str, "Z", "+00:00"))
         IN IF start = NoDate \/ end = NoDate THEN ReturnNone
            ELSE IF IsAware(start) # IsAware(end) THEN Raise("TypeError")
            ELSE Return(((UtcDay(end) - UtcDay(start)) * 86400
                            + UtcSecondOfDay(end) - UtcSecondOfDay(start)) \div 86400)

\* d.replace(hour=0, minute=0, second=0, microsecond=0)
AtMidnight(d) == [d EXCEPT !.sec = 0]

\* lines 109-118 of business_days.py: the scan visits start, start + 1 day,
\* ... while the day visited is not after end; the comparison raises at
\* once when one of the two carries an offset and the other does not
ScanBusinessDays(start, end, holidays) ==
    IF Raised(DatetimeGreater(start, end)) THEN DatetimeGreater(start, end)
    ELSE Return(Cardinality(
             { k \in 0..(end.ord - start.ord + 1) :
                   /\ ~DatetimeGreater([start EXCEPT !.ord = @ + k], end).value
                   /\ IsBusinessDay(start.ord + k, holidays) }))

\* calculate_business_days of business_days.py
BackendCalculateBusinessDays(start_date, end_date, holidays) ==
    IF ~Truthy(start_date) \/ ~Truthy(end_date) THEN ReturnNone
    ELSE LET start == FromIsoFormat(Replace(start_date, "Z", "+00:00"))
             end == FromIsoFormat(Replace(end_date, "Z", "+00:00"))
         IN IF start = NoDate \/ end = NoDate THEN ReturnNone
            ELSE ScanBusinessDays(AtMidnight(start), AtMidnight(end), holidays)

\* the arguments the callers pass: dates of the register, missing ones and
\* texts that are no dates
DayTexts ==
    {NoneVal, "", "not-a-date", "2024-12-20T00:00:00Z", "2024-12-25",
     "2025-01-10T09:30:00+10:00", "2025-01-13T00:00:00", "2025-01-26T12:00:00Z",
     "2025-01-27", "2025-03-07T00:00:00Z", "2025-03-11T23:59:59+10:00",
     "2026-01-12T00:00:00Z"}

\* the dates act-public-holidays.json may list: Christmas Day (in the closure
\* period), Australia Day 2025 (a Sunday), its Monday and Canberra Day
HolidayDates == {"2024-12-25", "2025-01-26", "2025-01-27", "2025-03-10"}

InitDays ==
    /\ HOLIDAYS_JSON \in SUBSET HolidayDates
    /\ PUBLIC_HOLIDAYS = [loaded |-> FALSE]
    /\ start_date_str \in DayTexts
    /\ end_date_str \in DayTexts
    /\ days = <<>>
    /\ dpc = "start"
    /\ InitBatchIdle
    /\ InitResolverIdle
    /\ InitReconcilerIdle
    /\ raw = NoneVal /\ normalized = NoneVal /\ npc = "idle"
    /\ matter = NoRecord /\ weeks = 0 /\ cutoff = <<>> /\ cpc = "idle"
    /\ reference = <<>> /\ skip = <<>>

otherVars ==
    <<merger, prior, page, scraped, runs, raw, normalized, npc, matter, weeks, cutoff, cpc,
      reference, skip>>

\* generate_static_data.calculate_business_days, with its lazy load
BusinessDays ==
    /\ dpc = "start"
    /\ PUBLIC_HOLIDAYS' =
           IF Truthy(start_date_str) /\ Truthy(end_date_str) /\ ~PUBLIC_HOLIDAYS.loaded
           THEN [loaded |-> TRUE, dates |-> HOLIDAYS_JSON]
           ELSE PUBLIC_HOLIDAYS
    /\ days' = [fn |-> "calculate_business_days",
                result |-> CalculateBusinessDays(start_date_str, end_date_str, HOLIDAYS_JSON)]
    /\ dpc' = "done"
    /\ UNCHANGED <<HOLIDAYS_JSON, start_date_str, end_date_str>>
    /\ UNCHANGED otherVars
    /\ UNCHANGED batchVars
    /\ UNCHANGED resolverVars

\* generate_static_data.calculate_calendar_days
CalendarDays ==
    /\ dpc = "start"
    /\ days' = [fn |-> "calculate_calendar_days",
                result |-> CalculateCalendarDays(start_date_str, end_date_str)]
    /\ dpc' = "done"
    /\ UNCHANGED <<HOLIDAYS_JSON, PUBLIC_HOLIDAYS, start_date_str, end_date_str>>
    /\ UNCHANGED otherVars
    /\ UNCHANGED batchVars
    /\ UNCHANGED resolverVars

\* business_days.calculate_business_days; the module loads the holidays when
\* it is imported
BackendBusinessDays ==
    /\ dpc = "start"
    /\ days' = [fn |-> "business_days.calculate_business_days",
                result |-> BackendCalculateBusinessDays(start_date_str, end_date_str,
                                                        HOLIDAYS_JSON)]
    /\ dpc' = "done"
    /\ UNCHANGED <<HOLIDAYS_JSON, PUBLIC_HOLIDAYS, start_date_str, end_date_str>>
    /\ UNCHANGED otherVars
    /\ UNCHANGED batchVars
    /\ UNCHANGED resolverVars

NextDays == BusinessDays \/ CalendarDays \/ BackendBusinessDays

SpecDays == InitDays /\ [][NextDays]_vars

\* the day of an argument that is a date, with or without a time
Midnight(text) == FromIsoFormat(Replace(text, "Z", "+00:00")).ord

IsDate(text) == Truthy(text) /\ FromIsoFormat(Replace(text, "Z", "+00:00")) # NoDate

\* a day that is no Saturday, no Sunday, not within 23 December..10 January
\* and no public holiday
BusinessDay(ord) ==
    /\ Weekday(ord) # 5 /\ Weekday(ord) # 6
    /\ ~(Month(ord) = 12 /\ Day(ord) \in 23..31)
    /\ ~(Month(ord) = 1 /\ Day(ord) \in 1..10)
    /\ StrfDate(ord) \notin HOLIDAYS_JSON

\* C16: for arguments that are dates, the closed-form calculate_business_days
\* returns the number of days from the day of start to the day of end,
\* both included, that are business days: each excluded day is subtracted
\* once, and an end before the start gives 0.
C16_BusinessDaysClosedForm ==
    ( /\ dpc = "done" /\ days.fn = "calculate_business_days"
      /\ IsDate(start_date_str) /\ IsDate(end_date_str) )
        => days.result =
               Return(Cardinality({ d \in Midnight(start_date_str)..Midnight(end_date_str) :
                                        BusinessDay(d) }))

C16_Witness ==
    /\ dpc = "done" /\ days.fn = "calculate_business_days"
    /\ start_date_str = "2024-12-20T00:00:00Z" /\ end_date_str = "2025-01-13T00:00:00"
    /\ HOLIDAYS_JSON = {"2024-12-25", "2025-01-26"}
    /\ days.result = Return(2)

\* C17: no call of a day counter lets an exception escape: the result is an
\* integer or None, and None whenever an argument is missing, empty or no
\* date.
C17_DayCountersNeverRaise ==
    dpc = "done" =>
        /\ ~Raised(days.result)
        /\ (~IsDate(start_date_str) \/ ~IsDate(end_date_str)) => days.result = ReturnNone

(***************************************************************************)
(* The resolver of scripts/generate_static_data.py: enrich_merger.         *)
(***************************************************************************)
\* extract_phase_from_event
ExtractPhaseFromEvent(event_title) ==
    IF ~Truthy(event_title) THEN NoneVal
    ELSE IF Contains("Phase 1", event_title) THEN "Phase 1"
    ELSE IF Contains("Phase 2", event_title) THEN "Phase 2"
    ELSE IF Contains("Public Benefits", event_title) \/ Contains("public benefits", event_title)
         THEN "Public Benefits"
    ELSE IF Contains("Waiver", event_title) \/ Contains("waiver", event_title) THEN "Waiver"
    ELSE IF Contains("notified", event_title) THEN "Phase 1"
    ELSE NoneVal

\* is_waiver_merger of generate_static_data.py
StaticIsWaiverMerger(m) ==
    LET merger_id == GetOr(m, "merger_id", "")
        stage == GetOr(m, "stage", "")
    IN IF merger_id = NoneVal THEN Raise("AttributeError")
       ELSE IF StartsWith(merger_id, "WA-") THEN Return(TRUE)
       ELSE IF stage = NoneVal THEN Raise("TypeError")
       ELSE Return(Contains("Waiver", stage))

\* lines 231-236: the index of the first event whose title tells the referral
\* to Phase 2, 0 if there is none
ReferralIndex(events) ==
    LET found == { i \in 1..Len(events) :
                       Contains("subject to Phase 2 review", GetOr(events[i], "title", "")) }
    IN IF found = {} THEN 0 ELSE CHOOSE i \in found : \A j \in found : i <= j

\* lines 223-236: the six slots after the loop over the events
SlotsFromEvents(m) ==
    LET events == GetOr(m, "events", <<>>)
        referral == ReferralIndex(events)
    IN [phase_1_determination |-> IF referral > 0 THEN "Referred to phase 2" ELSE NoneVal,
        phase_1_determination_date |->
            IF referral > 0 THEN Get(events[referral], "date") ELSE NoneVal,
        phase_2_determination |-> NoneVal,
        phase_2_determination_date |-> NoneVal,
        public_benefits_determination |-> NoneVal,
        public_benefits_determination_date |-> NoneVal]

\* lines 223-258: the six slots
Slots(m) ==
    LET slots == SlotsFromEvents(m)
        det == Get(m, "accc_determination")
        det_date == Get(m, "determination_publication_date")
        stage == GetOr(m, "stage", "Phase 1")
    IN IF ~(Truthy(det) /\ Truthy(det_date)) THEN Return(slots)
       ELSE IF stage = NoneVal THEN Raise("TypeError")
       ELSE IF Contains("Phase 1", stage)
            THEN Return([slots EXCEPT !.phase_1_determination = det,
                                      !.phase_1_determination_date = det_date])
       ELSE IF Contains("Phase 2", stage)
            THEN Return([slots EXCEPT !.phase_2_determination = det,
                                      !.phase_2_determination_date = det_date])
       ELSE IF Contains("Public", stage) \/ Contains("Benefits", stage)
            THEN Return([slots EXCEPT !.public_benefits_determination = det,
                                      !.public_benefits_determination_date = det_date])
       ELSE Return(slots)

\* lines 266-268 tagging every event
TagAllEvents(events) ==
    [i \in 1..Len(events) |->
        Put(events[i], "phase", ExtractPhaseFromEvent(GetOr(events[i], "title", "")))]

\* lines 266-268: the events, each without a phase given one
TagEvents(events) ==
    [i \in 1..Len(events) |->
        IF "phase" \in DOMAIN events[i] THEN events[i]
        ELSE Put(events[i], "phase", ExtractPhaseFromEvent(GetOr(events[i], "title", "")))]

\* f with the fields of g added or replaced
Update(f, g) ==
    [k \in (DOMAIN f) \cup (DOMAIN g) |-> IF k \in DOMAIN g THEN g[k] ELSE f[k]]

\* enrich_merger
EnrichMerger(merger_arg, commentary_arg) ==
    LET m1 == Put(merger_arg, "accc_determination",
                  NormalizeDetermination(Get(merger_arg, "accc_determination")))
        waiver == StaticIsWaiverMerger(merger_arg)
        merger_id == GetOr(m1, "merger_id", "")
        slots == Slots(m1)
    IN IF Raised(waiver) THEN waiver
       ELSE IF Raised(slots) THEN slots
       ELSE LET m2 == Put(m1, "is_waiver", waiver.value)
                m3 == IF commentary_arg # NoRecord /\ merger_id \in DOMAIN commentary_arg
                      THEN Put(m2, "commentary", commentary_arg[merger_id]) ELSE m2
                m4 == Update(m3, slots.value)
                m5 == IF "anzsic_codes" \in DOMAIN m4 THEN m4
                      ELSE Put(m4, "anzsic_codes", <<>>)
            IN Return(IF "events" \in DOMAIN m5
                      THEN Put(m5, "events", TagEvents(m5.events)) ELSE m5)

\* the caller's record after enrich_merger(merger): m is a shallow copy, so
\* the events tagged at lines 266-268 are the caller's own
AfterEnrich(merger_arg, commentary_arg) ==
    IF ~Raised(EnrichMerger(merger_arg, commentary_arg)) /\ "events" \in DOMAIN merger_arg
    THEN Put(merger_arg, "events", TagEvents(merger_arg.events))
    ELSE merger_arg

\* the events of the records handed to the resolver
ResolverEvents ==
    { [title |-> "Merger notified to ACCC", date |-> D1],
      [title |-> "Merger subject to Phase 2 review", date |-> D2],
      [title |-> "Phase 1 determination: Approved", date |-> D1],
      [title |-> "Public Benefits application received"],
      [title |-> "public benefits waiver sought", date |-> D1],
      [title |-> "Waiver granted", date |-> D2],
      [title |-> "waiver application lodged", date |-> D1],
      [title |-> "Statement of issues", date |-> D1],
      [title |-> "Phase 1 review: subject to Phase 2 review", date |-> D1,
       phase |-> "Phase 2"],
      [date |-> D1] }

MaxEvents == 2

\* the records of mergers.json handed to the resolver
ResolverMatters ==
    { id @@ stage @@ determination @@ date @@ events :
          id \in {[merger_id |-> "MN-01016"], [merger_id |-> "WA-00042"]},
          stage \in {<<>>, [stage |-> NoneVal], [stage |-> "Phase 1"], [stage |-> "Phase 2"],
                     [stage |-> "Public Benefits"], [stage |-> "phase 2"],
                     [stage |-> "Waiver application"]},
          determination \in {<<>>} \cup
              {[accc_determination |-> t] :
                   t \in {"Approved", "Not approved", "ACCC DeterminationApproved",
                          "ACCC ACCC DeterminationDetermination"}},
          date \in {<<>>, [determination_publication_date |-> D2]},
          events \in {<<>>} \cup
              {[events |-> l] : l \in UNION {[1..n -> ResolverEvents] : n \in 0..MaxEvents}} }

InitResolver ==
    /\ matter \in ResolverMatters
    /\ commentary \in {NoRecord, [x \in {"MN-01016"} |-> "Cleared after a short review."]}
    /\ enriched = <<>>
    /\ again = <<>>
    /\ rpc = "start"
    /\ InitReconcilerIdle
    /\ raw = NoneVal /\ normalized = NoneVal /\ npc = "idle"
    /\ weeks = 0 /\ cutoff = <<>> /\ cpc = "idle"
    /\ reference = <<>> /\ skip = <<>>
    /\ InitDaysIdle
    /\ InitBatchIdle

Enrich ==
    /\ rpc = "start"
    /\ enriched' = EnrichMerger(matter, commentary)
    /\ matter' = AfterEnrich(matter, commentary)
    /\ rpc' = "done"
    /\ UNCHANGED <<merger, prior, page, scraped, runs, raw, normalized, npc, weeks, cutoff, cpc,
                   reference, skip, commentary, again>>
    /\ UNCHANGED daysVars
    /\ UNCHANGED batchVars

\* enrich_merger called on the record it returned
EnrichAgain ==
    /\ rpc = "done"
    /\ ~Raised(enriched)
    /\ again' = EnrichMerger(enriched.value, commentary)
    /\ rpc' = "again"
    /\ UNCHANGED <<merger, prior, page, scraped, runs, raw, normalized, npc, matter, weeks,
                   cutoff, cpc, reference, skip, commentary, enriched>>
    /\ UNCHANGED daysVars
    /\ UNCHANGED batchVars

NextResolver == Enrich \/ EnrichAgain

SpecResolver == InitResolver /\ [][NextResolver]_vars

\* the events of a record, none when it has no list
EventsOf(m) == GetOr(m, "events", <<>>)

HasReferral(m) ==
    \E i \in 1..Len(EventsOf(m)) :
        Contains("subject to Phase 2 review", GetOr(EventsOf(m)[i], "title", ""))

\* C18: when the title of an event of the matter contains "subject to Phase 2
\* review", the resolved record has phase_1_determination = "Referred to
\* phase 2", dated as the first such event, whatever the stage and the
\* determination of the matter.
C18_ReferralTakesPrecedence ==
    (rpc = "done" /\ ~Raised(enriched) /\ HasReferral(matter)) =>
        /\ enriched.value.phase_1_determination = "Referred to phase 2"
        /\ \E i \in 1..Len(EventsOf(matter)) :
              /\ Contains("subject to Phase 2 review", GetOr(EventsOf(matter)[i], "title", ""))
              /\ \A j \in 1..(i - 1) :
                    ~Contains("subject to Phase 2 review",
                              GetOr(EventsOf(matter)[j], "title", ""))
              /\ enriched.value.phase_1_determination_date = Get(EventsOf(matter)[i], "date")

\* the slot the text of a stage selects without regard to letter case; "none"
\* for a stage that names no phase
SlotOfStage(m) ==
    IF "stage" \notin DOMAIN m THEN "phase_1"
    ELSE LET stage == Lower(Str(m.stage))
         IN IF Contains("phase 1", stage) THEN "phase_1"
            ELSE IF Contains("phase 2", stage) THEN "phase_2"
            ELSE IF Contains("public", stage) \/ Contains("benefits", stage)
                 THEN "public_benefits"
            ELSE "none"

\* the determination and the date held by a slot of a resolved record
SlotPair(r, slot) ==
    IF slot = "phase_1" THEN <<r.phase_1_determination, r.phase_1_determination_date>>
    ELSE IF slot = "phase_2" THEN <<r.phase_2_determination, r.phase_2_determination_date>>
    ELSE <<r.public_benefits_determination, r.public_benefits_determination_date>>

\* C19: a matter without referral event that has a determination and its date
\* gets the pair in the one slot its stage selects, letter case disregarded
\* (the Phase 1 slot when it has no stage), and the two other slots empty.
C19_PairInOneSlot ==
    ( /\ rpc = "done" /\ ~Raised(enriched) /\ ~HasReferral(matter)
      /\ Truthy(enriched.value.accc_determination)
      /\ Truthy(Get(matter, "determination_publication_date"))
      /\ SlotOfStage(matter) # "none" )
        => \A slot \in {"phase_1", "phase_2", "public_benefits"} :
               SlotPair(enriched.value, slot) =
                   IF slot = SlotOfStage(matter)
                   THEN <<enriched.value.accc_determination,
                          matter.determination_publication_date>>
                   ELSE <<NoneVal, NoneVal>>

\* the phase the ordered rules give a title
PhaseOfTitle(title) ==
    CASE Contains("Phase 1", title) -> "Phase 1"
      [] ~Contains("Phase 1", title) /\ Contains("Phase 2", title) -> "Phase 2"
      [] OTHER ->
            IF Contains("Public Benefits", title) \/ Contains("public benefits", title)
            THEN "Public Benefits"
            ELSE IF Contains("Waiver", title) \/ Contains("waiver", title) THEN "Waiver"
            ELSE IF Contains("notified", title) THEN "Phase 1"
            ELSE NoneVal

\* C20: enrich_merger gives every event without a phase the phase the ordered
\* rules derive from its title (none when no rule applies), and leaves an
\* event that carries a phase as it is.
C20_PhaseTagging ==
    [][ (rpc = "start" /\ rpc' = "done" /\ ~Raised(enriched') /\ "events" \in DOMAIN matter)
            => /\ Len(enriched'.value.events) = Len(matter.events)
               /\ \A i \in 1..Len(matter.events) :
                     enriched'.value.events[i] =
                         IF "phase" \in DOMAIN matter.events[i] THEN matter.events[i]
                         ELSE Put(matter.events[i], "phase",
                                  PhaseOfTitle(GetOr(matter.events[i], "title", ""))) ]_vars

C20_Witness ==
    /\ rpc = "done" /\ ~Raised(enriched)
    /\ "events" \in DOMAIN enriched.value /\ Len(enriched.value.events) = 2
    /\ enriched.value.events[1] =
           [title |-> "Phase 1 review: subject to Phase 2 review", date |-> D1,
            phase |-> "Phase 2"]
    /\ enriched.value.events[2] =
           [title |-> "public benefits waiver sought", date |-> D1,
            phase |-> "Public Benefits"]

\* C21: enrich_merger applied to the record it returned gives that record
\* again, equal in every field: the normalized determination, the six slots
\* and the phase of every event.
C21_ResolutionIdempotent ==
    rpc = "again" => again = enriched

\* C22: enrich_merger leaves the record it is given as it was: no field of
\* the caller's record and no field of any of its events, phase included, is
\* added or changed by the call.
C22_InputUnchanged ==
    [][ (rpc = "start" /\ rpc' = "done") => matter' = matter ]_vars

(***************************************************************************)
(* extract_mergers.py, the copy of the extractor at the top of the source  *)
(* tree, run over the matter.  It differs from scripts/extract_mergers.py  *)
(* in the url_gh of an event and in the consultation date it keeps.        *)
(***************************************************************************)
\* lines 272-288: the body of the row loop
LegacyScrapeEvent(merger_id, row) ==
    LET event == [date |-> row.date, title |-> row.title, display_title |-> row.title]
    IN IF "href" \in DOMAIN row
       THEN LET url == UrlJoin(BASE_URL, row.href)
                filename == Unquote(Basename(UrlPath(url)))
            IN [url |-> url,
                url_gh |-> "https://github.com/nwbort/accc-mergers/raw/main/matters/"
                               \o Str(merger_id) \o "/" \o filename,
                status |-> "live"] @@ event
       ELSE event

\* lines 185-191 and 202-213: end_of_determination_period and
\* consultation_response_due_date
LegacyPreservedFields(p, existing_merger_data) ==
    LET f1 == IF "end_date" \in DOMAIN p
              THEN [end_of_determination_period |-> p.end_date]
              ELSE IF "end_of_determination_period" \in DOMAIN existing_merger_data
              THEN [end_of_determination_period |->
                        existing_merger_data.end_of_determination_period]
              ELSE <<>>
    IN IF "consultation_text" \in DOMAIN p
       THEN LET consultation_due_date == ParseDateFromText(p.consultation_text)
            IN IF Truthy(consultation_due_date)
               THEN Put(f1, "consultation_response_due_date", consultation_due_date)
               ELSE f1
       ELSE IF "consultation_response_due_date" \in DOMAIN existing_merger_data
       THEN Put(f1, "consultation_response_due_date",
                existing_merger_data.consultation_response_due_date)
       ELSE f1

\* parse_merger_file(filepath, existing_merger_data) of extract_mergers.py;
\* the fields of lines 162-200, the merge of lines 292-352 and the two
\* synthetic events of lines 354-395 are those of scripts/extract_mergers.py
LegacyParseMergerFile(p, existing_merger_data) ==
    LET scraped_events ==
            [i \in 1..Len(p.rows) |-> LegacyScrapeEvent(Get(p, "merger_id"), p.rows[i])]
        merged == Put(LegacyPreservedFields(p, existing_merger_data) @@ PageFields(p),
                      "events", MergeEvents(scraped_events, existing_merger_data))
    IN AddDeterminationEvent(AddNotificationEvent(merged))

\* the pages of the matter over its assessment: the end of the determination
\* period and the consultation text come and go
FieldPages ==
    { [merger_id |-> MatterId, stage |-> "Stage Phase 1", notified |-> D1]
          @@ end @@ consultation @@ rows :
          end \in {<<>>, [end_date |-> D2], [end_date |-> "2025-07-01T12:00:00Z"]},
          consultation \in {<<>>} \cup
              { [consultation_text |-> t] :
                    t \in { "Submissions to be provided by 21 November 2025",
                            "Consultation closed",
                            "Responses due 31 Nov 2025",
                            "by 5 may 2026.",
                            "Views by 121 Sept 2025 or 7 Jan 20261" } },
          rows \in {[rows |-> <<>>],
                    [rows |-> <<[date |-> D1, title |-> "Statement of issues",
                                 href |-> "/system/files/Statement%20of%20issues.docx"]>>]} }

InitLegacy ==
    /\ merger = NoRecord
    /\ prior = NoRecord
    /\ page = NoPage
    /\ scraped = <<>>
    /\ runs = 0
    /\ InitOther

\* one run of main() of extract_mergers.py over the matter
LegacyRescrape ==
    /\ runs < MaxRuns
    /\ \E p \in FieldPages :
           /\ page' = p
           /\ scraped' = [i \in 1..Len(p.rows) |-> LegacyScrapeEvent(Get(p, "merger_id"), p.rows[i])]
           /\ prior' = merger
           /\ merger' = LegacyParseMergerFile(p, merger)
    /\ runs' = runs + 1
    /\ UNCHANGED <<raw, normalized, npc, matter, weeks, cutoff, cpc, reference, skip>>
    /\ UNCHANGED daysVars
    /\ UNCHANGED batchVars
    /\ UNCHANGED resolverVars

NextLegacy == LegacyRescrape

SpecLegacy == InitLegacy /\ [][NextLegacy]_vars

\* the value the page of a run gives for a preserved field, None when it
\* gives none that can be read
Fresh(p, field) ==
    IF field = "end_of_determination_period" THEN Get(p, "end_date")
    ELSE IF "consultation_text" \in DOMAIN p THEN ParseDateFromText(p.consultation_text)
    ELSE NoneVal

\* C23: once the record of the matter carries end_of_determination_period
\* (consultation_response_due_date), the record every later run writes
\* carries it too: with the value of the page when the page gives one that
\* can be read, and with the value of the record before the run otherwise,
\* also when the page has a consultation text without a date in it.
C23_PreservedOnceSeen ==
    [][ \A field \in {"end_of_determination_period", "consultation_response_due_date"} :
            field \in DOMAIN merger =>
                /\ field \in DOMAIN merger'
                /\ merger'[field] = IF Truthy(Fresh(page', field)) THEN Fresh(page', field)
                                    ELSE merger[field] ]_vars

(***************************************************************************)
(* scripts/extract_mergers.py: main(), one batch run after another over    *)
(* the matters directory.  A row of a page has no "date" when its time tag *)
(* has no datetime attribute.                                              *)
(***************************************************************************)
\* get_merger_id_from_file
GetMergerIdFromFile(p) == Get(p, "merger_id")

\* lines 563-571: existing_mergers, the last record of each merger_id
ExistingMergers(existing_data) ==
    LET keyed == { i \in 1..Len(existing_data) : "merger_id" \in DOMAIN existing_data[i] }
    IN [id \in { existing_data[i].merger_id : i \in keyed } |->
           existing_data[CHOOSE i \in keyed :
                             /\ existing_data[i].merger_id = id
                             /\ \A j \in keyed : existing_data[j].merger_id = id => j <= i]]

\* parse_merger_file with its except branch (lines 469-471): None, written
\* NoRecord, when line 335 raises KeyError
ParseMergerFileOrNone(p, existing_merger_data) ==
    IF \E i \in 1..Len(p.rows) : "date" \notin DOMAIN p.rows[i] THEN NoRecord
    ELSE ParseMergerFile(p, existing_merger_data)

\* lines 600-606: the tasks for the files in the order of the listing
RECURSIVE Tasks(_, _, _)
Tasks(listing, dir, existing_mergers) ==
    IF Len(listing) = 0 THEN <<>>
    ELSE LET fp == listing[1]
             merger_id == GetMergerIdFromFile(dir[fp])
             rest == Tasks(SubSeq(listing, 2, Len(listing)), dir, existing_mergers)
         IN IF Truthy(merger_id)
            THEN <<[fp |-> fp, existing |-> GetOr(existing_mergers, merger_id, NoRecord),
                    state |-> "queued"]>> \o rest
            ELSE rest

\* line 618: list.sort(key=merger_id), which keeps the order of equal
\* keys, for the two merger ids of the model
SortByMergerId(data) ==
    SelectSeq(data, LAMBDA m : m.merger_id = "MN-01016")
        \o SelectSeq(data, LAMBDA m : m.merger_id = "MN-01017")

\* lines 514-534 of enrich_with_questionnaire_data: the deadline of the
\* questionnaire of a matter given to its record (the last one of the id)
\* when it has no consultation date
EnrichWithQuestionnaireData(mergers_data, questionnaire_data) ==
    [i \in 1..Len(mergers_data) |->
        LET m == mergers_data[i]
        IN IF /\ m.merger_id \in DOMAIN questionnaire_data
              /\ \A j \in (i + 1)..Len(mergers_data) : mergers_data[j].merger_id # m.merger_id
              /\ ~Truthy(Get(m, "consultation_response_due_date"))
           THEN Put(m, "consultation_response_due_date",
                    questionnaire_data[m.merger_id] \o "T12:00:00Z")
           ELSE m]

\* the pages the scraper may have left in a file
BatchPages ==
    { [stage |-> "Stage Phase 1", notified |-> D1] @@ body :
          body \in
              { [merger_id |-> "MN-01016",
                 rows |-> <<[date |-> D1, title |-> "Statement of issues",
                             href |-> "/system/files/Statement%20of%20issues.docx"]>>],
                [merger_id |-> "MN-01016", end_date |-> D2, rows |-> <<>>],
                [merger_id |-> "MN-01016",
                 rows |-> <<[title |-> "Public consultation commenced"]>>],
                [merger_id |-> "MN-01017",
                 rows |-> <<[date |-> D2, title |-> "Public consultation commenced"]>>],
                [rows |-> <<>>] } }

\* the states of the matters directory
Directories == UNION { [names -> BatchPages] : names \in SUBSET {"a.html", "b.html"} }

\* os.listdir: the names in any order
Listings(names) ==
    { l \in UNION { [1..n -> names] : n \in {Cardinality(names)} } :
          \A i, j \in 1..Len(l) : i # j => l[i] # l[j] }

InitBatch ==
    /\ mergers_json = <<>>
    /\ files = <<>>
    /\ tasks = <<>>
    /\ bpc = "start"
    /\ callers = <<>>
    /\ InitReconcilerIdle
    /\ HOLIDAYS_JSON = {} /\ PUBLIC_HOLIDAYS = [loaded |-> FALSE]
    /\ start_date_str = NoneVal /\ end_date_str = NoneVal
    /\ days = <<>> /\ dpc = "idle"
    /\ InitResolverIdle
    /\ raw = NoneVal /\ normalized = NoneVal /\ npc = "idle"
    /\ matter = NoRecord /\ weeks = 0 /\ cutoff = <<>> /\ cpc = "idle"
    /\ reference = <<>> /\ skip = <<>>

\* main(), lines 553-609: mergers.json loaded, the directory listed and the
\* tasks handed to the pool
StartBatch ==
    /\ bpc = "start"
    /\ runs < MaxRuns
    /\ \E dir \in Directories :
         \E listing \in Listings(DOMAIN dir) :
           /\ files' = dir
           /\ tasks' = Tasks(listing, dir, ExistingMergers(mergers_json))
    /\ bpc' = "parsing"
    /\ UNCHANGED <<mergers_json, callers, runs>>
    /\ UNCHANGED <<merger, prior, page, scraped, raw, normalized, npc, matter, weeks, cutoff,
                   cpc, reference, skip>>
    /\ UNCHANGED daysVars
    /\ UNCHANGED resolverVars

\* a worker of the pool takes a task
WorkerStart ==
    /\ bpc = "parsing"
    /\ \E i \in 1..Len(tasks) :
           /\ tasks[i].state = "queued"
           /\ tasks' = [tasks EXCEPT ![i].state = "running"]
    /\ UNCHANGED <<mergers_json, files, bpc, callers, runs>>
    /\ UNCHANGED <<merger, prior, page, scraped, raw, normalized, npc, matter, weeks, cutoff,
                   cpc, reference, skip>>
    /\ UNCHANGED daysVars
    /\ UNCHANGED resolverVars

\* run_parse_merger_file(task) returns in the worker
WorkerFinish ==
    /\ bpc = "parsing"
    /\ \E i \in 1..Len(tasks) :
           /\ tasks[i].state = "running"
           /\ tasks' = [tasks EXCEPT ![i] =
                  [fp |-> tasks[i].fp, existing |-> tasks[i].existing, state |-> "done",
                   data |-> ParseMergerFileOrNone(files[tasks[i].fp], tasks[i].existing)]]
    /\ UNCHANGED <<mergers_json, files, bpc, callers, runs>>
    /\ UNCHANGED <<merger, prior, page, scraped, raw, normalized, npc, matter, weeks, cutoff,
                   cpc, reference, skip>>
    /\ UNCHANGED daysVars
    /\ UNCHANGED resolverVars

\* main(), lines 612-622: the results that are not None, in the order of the
\* tasks, enriched, sorted and written
WriteSnapshot ==
    /\ bpc = "parsing"
    /\ \A i \in 1..Len(tasks) : tasks[i].state = "done"
    /\ \E questionnaire_data \in {<<>>, [id \in {"MN-01016"} |-> "2025-11-28"]} :
           LET results == [i \in 1..Len(tasks) |-> tasks[i].data]
               all_mergers_data == SelectSeq(results, LAMBDA data : data # NoRecord)
           IN mergers_json' =
                  SortByMergerId(
                      EnrichWithQuestionnaireData(all_mergers_data, questionnaire_data))
    /\ tasks' = <<>>
    /\ bpc' = "start"
    /\ runs' = runs + 1
    /\ UNCHANGED <<files, callers>>
    /\ UNCHANGED <<merger, prior, page, scraped, raw, normalized, npc, matter, weeks, cutoff,
                   cpc, reference, skip>>
    /\ UNCHANGED daysVars
    /\ UNCHANGED resolverVars

NextBatch == StartBatch \/ WorkerStart \/ WorkerFinish \/ WriteSnapshot

SpecBatch == InitBatch /\ [][NextBatch]_vars

\* C24: every matter of the snapshot before a batch run is in the snapshot
\* the run writes, with each of its events still in the list of the matter,
\* also when its page was not among the files of the run or did not parse.
C24_MatterNeverDeleted ==
    [][ (bpc = "parsing" /\ bpc' = "start") =>
            \A i \in 1..Len(mergers_json) :
                \E j \in 1..Len(mergers_json') :
                    /\ mergers_json'[j].merger_id = mergers_json[i].merger_id
                    /\ \A k \in 1..Len(mergers_json[i].events) :
                           \E l \in 1..Len(mergers_json'[j].events) :
                               SameKey(mergers_json[i].events[k], mergers_json'[j].events[l])
      ]_vars

\* the events i before j of a list are in the order of their dates
InDateOrder(events) ==
    \A i, j \in 1..Len(events) :
        i < j => LET a == ParseIsoDatetime(events[i].date)
                     b == ParseIsoDatetime(events[j].date)
                 IN a.ord < b.ord \/ (a.ord = b.ord /\ a.sec <= b.sec)

\* C25: after every run of the reconciler the events of the record are in
\* the order of their dates, the events new in the scrape and the synthetic
\* notification and determination events included.
C25_EventsInDateOrder ==
    runs > 0 => InDateOrder(merger.events)

\* C26: in a batch run no two workers are at work on pages of the same
\* merger_id at once, and mergers.json holds at most one record of a
\* merger_id, whatever the files, two files with the same id included.
C26_OneWorkerOneRecordPerMatter ==
    /\ \A i, j \in 1..Len(tasks) :
           (i # j /\ tasks[i].state = "running" /\ tasks[j].state = "running") =>
               GetMergerIdFromFile(files[tasks[i].fp]) # GetMergerIdFromFile(files[tasks[j].fp])
    /\ \A i, j \in 1..Len(mergers_json) :
           i # j => mergers_json[i].merger_id # mergers_json[j].merger_id

(***************************************************************************)
(* scripts/generate_static_data.py: the lazy load of PUBLIC_HOLIDAYS with  *)
(* several threads making their first call to the calendar at once.  A     *)
(* thread runs load_public_holidays on a set of its own; the global name   *)
(* is read and bound in single steps of the interpreter.                   *)
(***************************************************************************)
MaxCallers == 2

InitLazy ==
    /\ HOLIDAYS_JSON \in SUBSET HolidayDates
    /\ PUBLIC_HOLIDAYS = [loaded |-> FALSE]
    /\ callers \in [1..MaxCallers -> { [fn |-> fn, pc |-> "check", holidays |-> {}, todo |-> {},
                                  tested |-> <<>>] :
                                     fn \in {"is_business_day", "calculate_business_days"} }]
    /\ start_date_str = NoneVal /\ end_date_str = NoneVal
    /\ days = <<>> /\ dpc = "idle"
    /\ mergers_json = <<>> /\ files = <<>> /\ tasks = <<>> /\ bpc = "idle"
    /\ InitReconcilerIdle
    /\ InitResolverIdle
    /\ raw = NoneVal /\ normalized = NoneVal /\ npc = "idle"
    /\ matter = NoRecord /\ weeks = 0 /\ cutoff = <<>> /\ cpc = "idle"
    /\ reference = <<>> /\ skip = <<>>

\* line 68 (line 111): PUBLIC_HOLIDAYS is None
CheckLoaded(c) ==
    /\ callers[c].pc = "check"
    /\ callers' = [callers EXCEPT ![c].pc = IF PUBLIC_HOLIDAYS.loaded THEN "test" ELSE "open"]
    /\ UNCHANGED PUBLIC_HOLIDAYS
    /\ UNCHANGED <<HOLIDAYS_JSON, start_date_str, end_date_str, days, dpc>>
    /\ UNCHANGED <<mergers_json, files, tasks, bpc>>
    /\ UNCHANGED otherVars
    /\ UNCHANGED resolverVars

\* load_public_holidays, lines 38-41: the file read, holidays = set()
OpenHolidays(c) ==
    /\ callers[c].pc = "open"
    /\ callers' = [callers EXCEPT ![c].pc = "add", ![c].holidays = {},
                                  ![c].todo = HOLIDAYS_JSON]
    /\ UNCHANGED PUBLIC_HOLIDAYS
    /\ UNCHANGED <<HOLIDAYS_JSON, start_date_str, end_date_str, days, dpc>>
    /\ UNCHANGED <<mergers_json, files, tasks, bpc>>
    /\ UNCHANGED otherVars
    /\ UNCHANGED resolverVars

\* load_public_holidays, lines 42-44: one holidays.add
AddHoliday(c) ==
    /\ callers[c].pc = "add"
    /\ \E date \in callers[c].todo :
           callers' = [callers EXCEPT ![c].holidays = @ \cup {date}, ![c].todo = @ \ {date}]
    /\ UNCHANGED PUBLIC_HOLIDAYS
    /\ UNCHANGED <<HOLIDAYS_JSON, start_date_str, end_date_str, days, dpc>>
    /\ UNCHANGED <<mergers_json, files, tasks, bpc>>
    /\ UNCHANGED otherVars
    /\ UNCHANGED resolverVars

\* the return of load_public_holidays whenever the thread is in its loops
LoopsLeftAnyTime(c) == TRUE

\* load_public_holidays, line 46 reached: the loops of lines 42-44 are over
LoopsLeft(c) == callers[c].todo = {}

\* line 46 and line 69 (line 112): the set returned and bound to the global
Publish(c) ==
    /\ callers[c].pc = "add"
    /\ LoopsLeft(c)
    /\ PUBLIC_HOLIDAYS' = [loaded |-> TRUE, dates |-> callers[c].holidays]
    /\ callers' = [callers EXCEPT ![c].pc = "test"]
    /\ UNCHANGED <<HOLIDAYS_JSON, start_date_str, end_date_str, days, dpc>>
    /\ UNCHANGED <<mergers_json, files, tasks, bpc>>
    /\ UNCHANGED otherVars
    /\ UNCHANGED resolverVars

\* line 81 (line 142): the global read for the test of a date
TestDate(c) ==
    /\ callers[c].pc = "test"
    /\ callers' = [callers EXCEPT ![c].pc = "done", ![c].tested = PUBLIC_HOLIDAYS]
    /\ UNCHANGED PUBLIC_HOLIDAYS
    /\ UNCHANGED <<HOLIDAYS_JSON, start_date_str, end_date_str, days, dpc>>
    /\ UNCHANGED <<mergers_json, files, tasks, bpc>>
    /\ UNCHANGED otherVars
    /\ UNCHANGED resolverVars

NextLazy ==
    \E c \in 1..MaxCallers :
        CheckLoaded(c) \/ OpenHolidays(c) \/ AddHoliday(c) \/ Publish(c) \/ TestDate(c)

SpecLazy == InitLazy /\ [][NextLazy]_vars

\* C27: whatever the interleaving of the first calls, the set a caller tests
\* a date against is the set of all the holidays of the file; the global is
\* bound to no other set, and once bound its value does not change: a second
\* load binds an equal set.
C27_NoPartialHolidaySet ==
    /\ [](\A c \in DOMAIN callers :
              callers[c].pc = "done" =>
                  callers[c].tested = [loaded |-> TRUE, dates |-> HOLIDAYS_JSON])
    /\ [](PUBLIC_HOLIDAYS.loaded => PUBLIC_HOLIDAYS.dates = HOLIDAYS_JSON)
    /\ [][PUBLIC_HOLIDAYS.loaded => PUBLIC_HOLIDAYS' = PUBLIC_HOLIDAYS]_vars

\* both callers found the global unset, each loaded three holidays, and the
\* second load replaced the set of the first
C27_Witness ==
    /\ callers # <<>>
    /\ Cardinality(HOLIDAYS_JSON) = 3
    /\ \A c \in DOMAIN callers :
           callers[c].pc = "done" /\ callers[c].holidays = HOLIDAYS_JSON

\* the record has no stage, or the null stage the extractor writes for a
\* page without stage tag
StageMissing(m) == "stage" \notin DOMAIN m \/ m.stage = NoneVal

\* C28: for a matter without stage or with a null stage, should_skip_merger
\* returns a boolean and enrich_merger returns a record; neither raises, and
\* the matter counts as a waiver only by its id.
C28_MissingStageNeverRaises ==
    /\ (cpc = "done" /\ skip # <<>> /\ StageMissing(matter)) =>
           (skip = Return(TRUE) \/ skip = Return(FALSE))
    /\ (rpc = "done" /\ StageMissing(matter)) =>
           /\ ~Raised(enriched)
           /\ enriched.value.is_waiver = StartsWith(Get(matter, "merger_id"), "WA-")

\* the url is the url of an event of the scrape of the run
InScrape(url) == \E i \in 1..Len(scraped) : "url" \in DOMAIN scraped[i] /\ scraped[i].url = url

\* C29: in the list a run of the reconciler leaves, an event with a url has
\* the status "live" when its url is in the scrape of the run and the status
\* "removed" when it is not, so that a removed event is live again once its
\* url is back on the page; an event without url has no status.
C29_StatusFollowsScrape ==
    runs > 0 =>
        \A i \in 1..Len(merger.events) :
            LET e == merger.events[i]
            IN IF "url" \in DOMAIN e
               THEN /\ "status" \in DOMAIN e
                    /\ e.status = (IF InScrape(e.url) THEN "live" ELSE "removed")
               ELSE "status" \notin DOMAIN e

\* an event the last run marked as removed is on the page again and live
C29_Witness ==
    /\ runs = 2
    /\ \E i \in 1..Len(prior.events) :
           /\ "url" \in DOMAIN prior.events[i]
           /\ prior.events[i].status = "removed"
           /\ \E j \in 1..Len(merger.events) :
                  /\ "url" \in DOMAIN merger.events[j]
                  /\ merger.events[j].url = prior.events[i].url
                  /\ merger.events[j].status = "live"
    /\ \E j \in 1..Len(merger.events) :
           "url" \in DOMAIN merger.events[j] /\ merger.events[j].status = "removed"
    /\ \E j \in 1..Len(merger.events) : "url" \notin DOMAIN merger.events[j]

\* C30: for a raw determination that is not empty, normalize_determination
\* of the extractor and normalize_determination of the database sync return
\* what normalize_determination of the normalization module returns.
C30_CopiesAgree ==
    (npc = "done" /\ Truthy(raw)) =>
        /\ ExtractNormalizeDetermination(raw) = normalized
        /\ SyncNormalizeDetermination(raw) = normalized

====
